---------------------------- MODULE Spec2Model ----------------------------
(***************************************************************************)
(* Verification model of claude-code-self-reflect.                         *)
(*                                                                         *)
(*  - Backfill orchestrator  (admin-api/app/routers/batch.py),             *)
(*    specification SpecBackfill                                           *)
(*  - Streaming importer  (scripts/import-conversations-unified.py),       *)
(*    specification SpecIngest                                             *)
(*  - Narrative worker and orphan cleanup                                  *)
(*    (admin-api/app/workers/narrative_worker.py, routers/batch.py),       *)
(*    specification SpecNarrative                                          *)
(*  - Batch jobs: the /jobs endpoints and BatchService                     *)
(*    (admin-api/app/routers/batch.py, services/batch_service.py),         *)
(*    specification SpecJobs                                               *)
(*                                                                         *)
(* The admin API runs on one asyncio event loop: the code between two      *)
(* awaits of a coroutine is atomic, and every await is a point where       *)
(* another request handler or background task may run.  Each backfill      *)
(* action is one such atomic section.  The importer is a synchronous       *)
(* script; its actions are the steps between which a failure or a crash    *)
(* can fall.  Each specification moves the variables of its own component  *)
(* and leaves the others at their initial values.                          *)
(***************************************************************************)
EXTENDS Integers, Sequences, FiniteSets, TLC

(***************************************************************************)
(* Bounds of the model.                                                    *)
(***************************************************************************)
\* Start requests issued over one behaviour
MaxStarts == 2
\* largest max_batches a Start request asks for (the field allows 1..50)
MaxBatches == 2
\* polls of one batch before the loop gives up: range(1000) in the source,
\* scaled down
PollLimit == 2

\* failures injected over one behaviour (a raising submit or poll, a batch
\* the remote ends as failed)
MaxFaults == 1

\* batch_size of a request: Field(50, ge=5, le=100); the smallest legal value
MinBatchSize == 5

\* transcripts under the one project directory of the model
NumFiles == 2
\* polls poll_batch_status makes before it gives up: max_retries = 100 in
\* the source (24 hours of one-minute polls in the worker's
\* poll_batch_until_complete), scaled down
MaxRetries == 2

\* largest number of chunkable messages of a transcript
MaxMsgs == 4
\* largest modification time of a transcript (times are counted, not measured)
MaxMtime == 2

\* MAX_CHUNK_SIZE, messages per chunk: int(os.getenv("MAX_CHUNK_SIZE", "50")),
\* run here with the environment variable set to 2
MAX_CHUNK_SIZE == 2

\* the vector sizes a collection of the store can have been created with:
\* FastEmbed all-MiniLM-L6-v2 (local) and voyage-3 (cloud)
embedding_dimension == 384
voyage_dimension == 1024
Dimensions == {embedding_dimension, voyage_dimension}

\* MAX_FILES_PER_CYCLE: int(os.getenv("MAX_FILES_PER_CYCLE", "1000"))
MAX_FILES_PER_CYCLE == 1000

\* entries of the unified state file
NumConvs == 3
\* largest imported_at of an entry (times are counted, not measured)
MaxImportedAt == 2

\* BATCH_SIZE: int(os.getenv('NARRATIVE_BATCH_SIZE', '50')), run here with
\* the environment variable set to 2
BATCH_SIZE == 2
\* MIN_CONVERSATIONS_FOR_BATCH: int(os.getenv('NARRATIVE_MIN_BATCH', '5')),
\* run here with the environment variable set to 2
MIN_CONVERSATIONS_FOR_BATCH == 2

\* batch jobs created through POST /jobs
MaxJobs == 1
MaxLimit == 2

Reqs == 1..MaxStarts
Files == 1..NumFiles
\* the transcript paths that are keys of the unified state file, in the
\* order of the JSON object
Paths == 1..NumConvs
BatchSizes == {MinBatchSize}
MaxBatchesChoices == 1..MaxBatches
\* numbers of candidates the fetch may return: none, fewer than one batch,
\* and one more than k full batches
PendingCounts == {0} \cup {k * MinBatchSize + 1 : k \in 0..(MaxBatches - 1)}

Min(a, b) == IF a <= b THEN a ELSE b

VARIABLES
    bf,       \* _backfill_state, the module-level run state record
    req,      \* the Start requests: where each handler is, its body, its response
    task,     \* the run_backfill_batches background task each Start scheduled
    remote,   \* the batches created at the remote batch API, by batch id
    hist,     \* history: what Stop found each loop doing (not program state)
    faults,   \* failures injected so far (bounds the model, not program state)
    \* ---- importer
    mtime,    \* st_mtime of each transcript
    msgs,     \* number of chunkable messages each transcript holds
    sfile,    \* contents of STATE_FILE on disk
    tmpfile,  \* contents of STATE_FILE.tmp on disk
    points,   \* points in the vector store: <<conversation, chunk_index>>
    state,    \* the importer's state dict: state["imported_files"]
    run,      \* where main() is: the files left, the file being streamed
    ilast,    \* history: the importer's latest step and the calls it made
    ifailed,  \* history: transcripts whose latest ingestion lost a chunk
    collection, \* vector size of the project's collection; 0 while it does not exist
    sent,     \* history: the lengths of the vectors passed to client.upsert
    \* ---- narrative worker and orphan cleanup
    ufile,    \* contents of UNIFIED_STATE_FILE on disk
    exists,   \* whether each transcript path exists on disk
    worker,   \* where the narrative worker is, and its local variables
    cleaner,  \* where cleanup_orphaned_entries is, and its local variables
    narratives, \* narrative points in the store: <<project, conversation id>>
    nfailed,  \* history: paths whose latest batch brought no stored narrative
    \* ---- batch jobs
    jobs,     \* the state files of BATCH_STATE_DIR, by batch id
    dash,     \* the batches as DashScope holds them, by batch id
    jlast,    \* history: the latest /jobs operation and its outcome
    selected, \* history: the latest candidate selection, its arguments and result
    pollers,  \* the polling loop started for each batch, by batch id
    \* ---- functions of the importer, applied to an argument
    fnpc,     \* "none", "input" (the argument is chosen) or "done" (the result is in)
    chunk_list, \* argument of create_token_aware_batches
    batches,  \* result of create_token_aware_batches
    project_path, \* argument of normalize_project_name
    project_name, \* result of normalize_project_name
    arg,      \* argument of the importer or provider function that is called
    ret,      \* what that function returned
    scan      \* one scan cycle of the importer over the project directories

bfvars == <<bf, req, task, remote, hist, faults>>
ingvars == <<mtime, msgs, sfile, tmpfile, points, state, run, ilast, ifailed,
            collection, sent>>
narvars == <<ufile, exists, worker, cleaner, narratives, nfailed>>
jobvars == <<jobs, dash, jlast, selected, pollers>>
fnvars == <<fnpc, chunk_list, batches, project_path, project_name, arg, ret>>
scanvars == <<scan>>
vars == <<bf, req, task, remote, hist, faults,
          mtime, msgs, sfile, tmpfile, points, state, run, ilast, ifailed,
          collection, sent,
          ufile, exists, worker, cleaner, narratives, nfailed,
          jobs, dash, jlast, selected, pollers,
          fnpc, chunk_list, batches, project_path, project_name, arg, ret,
          scan>>

(***************************************************************************)
(* _backfill_state as the module defines it: no run yet.  started and      *)
(* finished say whether started_at is set and whether the finished_at key  *)
(* exists.  The fields nothing reads (total_conversations, batch_size,     *)
(* model, delay_between_batches, narratives_generated) are left out.       *)
(***************************************************************************)
InitialBackfillState ==
    [running |-> FALSE, started |-> FALSE, finished |-> FALSE,
     batches_to_submit |-> 0, batches_submitted |-> 0, batches_completed |-> 0,
     errors |-> 0, last_error |-> "None"]

\* the record start_backfill rebinds _backfill_state to
ResetBackfillState(to_submit) ==
    [running |-> TRUE, started |-> TRUE, finished |-> FALSE,
     batches_to_submit |-> to_submit, batches_submitted |-> 0, batches_completed |-> 0,
     errors |-> 0, last_error |-> "None"]

NoTask ==
    [pc |-> "none", batch_num |-> 0, polls |-> 0, nconv |-> 0,
     batch_size |-> 0, max_batches |-> 0, batch_id |-> 0]

NewReq == [pc |-> "new", batch_size |-> 0, max_batches |-> 0, response |-> "none"]

NoHist == [stopped |-> FALSE, inflight |-> 0]

(***************************************************************************)
(* Streaming importer: the state file and the state dict.                  *)
(*                                                                         *)
(* A file on disk is missing, holds a complete JSON document, or is torn   *)
(* (opened for writing and truncated, the document not yet written out).   *)
(* The document of STATE_FILE is {"imported_files": {path: record}}; it is *)
(* modelled by the function path -> record.                                *)
(***************************************************************************)
EmptyDoc == [f \in {} |-> 0]
Missing == [kind |-> "missing", doc |-> EmptyDoc]
Torn == [kind |-> "torn", doc |-> EmptyDoc]
Complete(d) == [kind |-> "doc", doc |-> d]

\* load_state: the document of STATE_FILE, or an empty one when the file
\* does not exist or cannot be parsed
load_state(file) == IF file.kind = "doc" THEN file.doc ELSE EmptyDoc

\* should_import_file without the comparison of modification times
should_import_unrecorded(f, st, mt) == f \notin DOMAIN st

\* should_import_file, given the state dict and the file's st_mtime
should_import_file(f, st, mt) ==
    IF f \in DOMAIN st
    THEN IF st[f].last_modified = mt THEN FALSE ELSE TRUE
    ELSE TRUE

\* update_file_state recording the number of chunks attempted
update_file_state_attempted(f, st, chunks, mt) ==
    [g \in DOMAIN st \cup {f} |->
        IF g = f
        THEN [imported_at |-> "now", last_modified |-> mt,
              chunks |-> run.chunk_index]
        ELSE st[g]]

\* the state dict after update_file_state(file_path, state, chunks)
update_file_state(f, st, chunks, mt) ==
    [g \in DOMAIN st \cup {f} |->
        IF g = f
        THEN [imported_at |-> "now", last_modified |-> mt, chunks |-> chunks]
        ELSE st[g]]

\* a point id that also depends on the transcript's modification time
point_id_by_mtime(conversation_id, chunk_index) ==
    <<conversation_id, chunk_index, mtime[conversation_id]>>

\* the point id of process_and_upload_chunk: md5 of the string
\* "<conversation_id>_<chunk_index>", which names the pair one-to-one
point_id(conversation_id, chunk_index) == <<conversation_id, chunk_index>>

\* the number of chunks stream_import_file cuts m messages into: one per
\* full buffer of MAX_CHUNK_SIZE messages, and one for the remainder
NumChunks(m) == (m + MAX_CHUNK_SIZE - 1) \div MAX_CHUNK_SIZE

\* sorted(project_dir.glob("*.jsonl"))[:max_files]
RECURSIVE SortedFiles(_)
SortedFiles(S) ==
    IF S = {} THEN << >>
    ELSE LET m == CHOOSE x \in S : \A y \in S : x <= y
         IN  <<m>> \o SortedFiles(S \ {m})

jsonl_files == SubSeq(SortedFiles(Files), 1, Min(NumFiles, MAX_FILES_PER_CYCLE))

NotRunning ==
    [pc |-> "idle", queue |-> << >>, cur |-> 0, chunk_index |-> 0,
     total_chunks |-> 0, remaining |-> 0]

NoStep == [op |-> "none", file |-> 0, calls |-> {}]

\* no scan cycle under way: MAX_FILES_PER_CYCLE unset, one project directory
NoScan ==
    [pc |-> "idle", projects |-> << >>, queue |-> << >>, total_imported |-> 0,
     max_files |-> MAX_FILES_PER_CYCLE, project_dir |-> [f \in Files |-> 1]]

\* no /jobs operation yet
NoOp == [op |-> "none", batch |-> 0, result |-> "none"]

\* no candidate selection yet
NoSelection ==
    [op |-> "none", project |-> "none", limit |-> 0, result |-> << >>,
     raised |-> FALSE]

\* the narrative worker between two cycles
WorkerIdle == [pc |-> "idle", batch |-> << >>, successful |-> {}, doc |-> EmptyDoc]

\* no cleanup_orphaned_entries call under way
CleanerIdle == [pc |-> "idle", doc |-> EmptyDoc, checked |-> 0, removed |-> 0]

\* the admin API after import of routers/batch.py: no backfill run, no
\* request, no background task, no remote batch.  The importer has not
\* run and stays out of this specification.
BackfillInit ==
    /\ bf = InitialBackfillState
    /\ req = [i \in Reqs |-> NewReq]
    /\ task = [i \in Reqs |-> NoTask]
    /\ remote = << >>
    /\ hist = [i \in Reqs |-> NoHist]
    /\ faults = 0
    /\ mtime = [f \in Files |-> 1]
    /\ msgs = [f \in Files |-> 0]
    /\ sfile = Missing
    /\ tmpfile = Missing
    /\ points = {}
    /\ state = EmptyDoc
    /\ run = NotRunning
    /\ ilast = NoStep
    /\ ifailed = [f \in Files |-> FALSE]
    /\ collection = 0
    /\ sent = {}
    /\ ufile = Missing
    /\ exists = [p \in Paths |-> TRUE]
    /\ worker = WorkerIdle
    /\ cleaner = CleanerIdle
    /\ narratives = {}
    /\ nfailed = {}
    /\ jobs = << >>
    /\ dash = << >>
    /\ jlast = NoOp
    /\ selected = NoSelection
    /\ pollers = << >>
    /\ fnpc = "none"
    /\ chunk_list = << >>
    /\ batches = << >>
    /\ project_path = << >>
    /\ project_name = << >>
    /\ arg = << >>
    /\ ret = << >>
    /\ scan = NoScan

\* the importer before its first run: transcripts of any length up to
\* MaxMsgs, nothing imported, no state file.  The admin API stays out of
\* this specification.
IngestInit ==
    /\ bf = InitialBackfillState
    /\ req = [i \in Reqs |-> NewReq]
    /\ task = [i \in Reqs |-> NoTask]
    /\ remote = << >>
    /\ hist = [i \in Reqs |-> NoHist]
    /\ faults = 0
    /\ mtime = [f \in Files |-> 1]
    /\ msgs \in [Files -> 0..MaxMsgs]
    /\ sfile = Missing
    /\ tmpfile = Missing
    /\ points = {}
    /\ state = EmptyDoc
    /\ run = NotRunning
    /\ ilast = NoStep
    /\ ifailed = [f \in Files |-> FALSE]
    /\ collection \in {0} \cup Dimensions
    /\ sent = {}
    /\ ufile = Missing
    /\ exists = [p \in Paths |-> TRUE]
    /\ worker = WorkerIdle
    /\ cleaner = CleanerIdle
    /\ narratives = {}
    /\ nfailed = {}
    /\ jobs = << >>
    /\ dash = << >>
    /\ jlast = NoOp
    /\ selected = NoSelection
    /\ pollers = << >>
    /\ fnpc = "none"
    /\ chunk_list = << >>
    /\ batches = << >>
    /\ project_path = << >>
    /\ project_name = << >>
    /\ arg = << >>
    /\ ret = << >>
    /\ scan = NoScan

(***************************************************************************)
(* run_backfill_batches: the control flow between awaits.                  *)
(***************************************************************************)
\* number of conversations in conversations[start_idx:end_idx]
SliceLen(t) ==
    LET start_idx == t.batch_num * t.batch_size
        end_idx == start_idx + t.batch_size
    IN  IF start_idx >= t.nconv THEN 0 ELSE Min(end_idx, t.nconv) - start_idx

\* top of `for batch_num in range(max_batches)`: the loop ends (and the
\* finally block runs) or the task awaits submit_batch
LoopTop(t, running) ==
    IF t.batch_num >= t.max_batches THEN [t EXCEPT !.pc = "done"]
    ELSE IF ~running THEN [t EXCEPT !.pc = "done"]
    ELSE IF SliceLen(t) = 0 THEN [t EXCEPT !.pc = "done"]
    ELSE [t EXCEPT !.pc = "submitting"]

\* after the poll loop: the inter-batch delay unless this was the last batch
AfterPoll(t, running) ==
    IF t.batch_num < t.max_batches - 1 THEN [t EXCEPT !.pc = "delay"]
    ELSE LoopTop([t EXCEPT !.batch_num = @ + 1], running)

\* top of `for _ in range(1000)`: leave the poll loop when the range is
\* exhausted or running is false, else await poll_and_update_status
PollTop(t, running) ==
    IF t.polls >= PollLimit THEN AfterPoll(t, running)
    ELSE IF ~running THEN AfterPoll(t, running)
    ELSE [t EXCEPT !.pc = "polling"]

\* the finally block, run when the task leaves the loop
FinallyState(b, t) ==
    IF t.pc = "done" THEN [b EXCEPT !.running = FALSE, !.finished = TRUE] ELSE b


(***************************************************************************)
(* POST /backfill/start                                                    *)
(***************************************************************************)
\* StartArrive without the running check
StartArriveUnchecked(i, bs, mb) ==
    /\ req[i].pc = "new"
    /\ \A j \in Reqs : j < i => req[j].pc # "new"
    /\ req' = [req EXCEPT ![i] = [pc |-> "fetching", batch_size |-> bs,
                                    max_batches |-> mb, response |-> "none"]]
    /\ UNCHANGED <<bf, task, remote, hist, faults>>
    /\ UNCHANGED ingvars
    /\ UNCHANGED narvars
    /\ UNCHANGED jobvars
    /\ UNCHANGED fnvars
    /\ UNCHANGED scanvars

\* the handler up to its first await: the running check, then the await of
\* get_conversations_without_narrative
StartArrive(i, bs, mb) ==
    /\ req[i].pc = "new"
    /\ \A j \in Reqs : j < i => req[j].pc # "new"
    /\ IF bf.running
       THEN req' = [req EXCEPT ![i] = [NewReq EXCEPT !.pc = "done", !.response = "409"]]
       ELSE req' = [req EXCEPT ![i] = [pc |-> "fetching", batch_size |-> bs,
                                       max_batches |-> mb, response |-> "none"]]
    /\ UNCHANGED <<bf, task, remote, hist, faults>>
    /\ UNCHANGED ingvars
    /\ UNCHANGED narvars
    /\ UNCHANGED jobvars
    /\ UNCHANGED fnvars
    /\ UNCHANGED scanvars

\* the awaited candidate fetch raises: the exception leaves the handler
\* (HTTP 500) before anything is assigned.  BatchService.
\* get_conversations_without_narrative as it stands takes no
\* validate_existence keyword, so the call at batch.py:474 ends this way;
\* an unreadable state file ends this way as well.
FetchRaises(i) ==
    /\ req[i].pc = "fetching"
    /\ req' = [req EXCEPT ![i] = [NewReq EXCEPT !.pc = "done", !.response = "500"]]
    /\ UNCHANGED <<bf, task, remote, hist, faults>>
    /\ UNCHANGED ingvars
    /\ UNCHANGED narvars
    /\ UNCHANGED jobvars
    /\ UNCHANGED fnvars
    /\ UNCHANGED scanvars

\* the candidate fetch returns n conversations (n <= limit): the rest of
\* the handler, up to the response
FetchReturns(i, n) ==
    /\ req[i].pc = "fetching"
    /\ n <= req[i].batch_size * req[i].max_batches
    /\ LET bs == req[i].batch_size
           batches_to_submit == Min(req[i].max_batches, (n + bs - 1) \div bs)
       IN  IF n = 0
           THEN /\ req' = [req EXCEPT ![i] = [NewReq EXCEPT !.pc = "done",
                                                          !.response = "no_pending"]]
                /\ UNCHANGED <<bf, task>>
           ELSE /\ bf' = ResetBackfillState(batches_to_submit)
                /\ task' = [task EXCEPT ![i] =
                              [pc |-> "scheduled", batch_num |-> 0, polls |-> 0,
                               nconv |-> n, batch_size |-> bs,
                               max_batches |-> batches_to_submit, batch_id |-> 0]]
                /\ req' = [req EXCEPT ![i] = [NewReq EXCEPT !.pc = "done",
                                                          !.response = "started"]]
    /\ UNCHANGED <<remote, hist, faults>>
    /\ UNCHANGED ingvars
    /\ UNCHANGED narvars
    /\ UNCHANGED jobvars
    /\ UNCHANGED fnvars
    /\ UNCHANGED scanvars

(***************************************************************************)
(* POST /backfill/stop                                                     *)
(***************************************************************************)
ActivePc(pc) == pc \notin {"none", "done"}

StopBackfill ==
    IF ~bf.running
    THEN UNCHANGED vars
    ELSE /\ bf' = [bf EXCEPT !.running = FALSE]
         /\ hist' = [i \in Reqs |->
                IF ActivePc(task[i].pc)
                THEN [stopped |-> TRUE,
                      inflight |->
                        IF /\ task[i].pc \in {"polling", "pollsleep"}
                           /\ remote[task[i].batch_id].status = "in_progress"
                        THEN task[i].batch_id ELSE hist[i].inflight]
                ELSE hist[i]]
         /\ UNCHANGED <<req, task, remote, faults>>
         /\ UNCHANGED ingvars
         /\ UNCHANGED narvars
         /\ UNCHANGED jobvars
         /\ UNCHANGED fnvars
         /\ UNCHANGED scanvars

(***************************************************************************)
(* run_backfill_batches, one action per atomic section                     *)
(***************************************************************************)
\* the background task starts after the response was sent
TaskBegin(i) ==
    /\ task[i].pc = "scheduled"
    /\ LET t == LoopTop(task[i], bf.running)
       IN  /\ task' = [task EXCEPT ![i] = t]
           /\ bf' = FinallyState(bf, t)
    /\ UNCHANGED <<req, remote, hist, faults>>
    /\ UNCHANGED ingvars
    /\ UNCHANGED narvars
    /\ UNCHANGED jobvars
    /\ UNCHANGED fnvars
    /\ UNCHANGED scanvars

\* submit_batch returns the job: the counter, then the first poll check
SubmitReturns(i) ==
    /\ task[i].pc = "submitting"
    /\ remote' = Append(remote, [status |-> "in_progress"])
    /\ LET b == [bf EXCEPT !.batches_submitted = @ + 1]
           t == PollTop([task[i] EXCEPT !.batch_id = Len(remote) + 1, !.polls = 0],
                        bf.running)
       IN  /\ task' = [task EXCEPT ![i] = t]
           /\ bf' = FinallyState(b, t)
    /\ UNCHANGED <<req, hist, faults>>
    /\ UNCHANGED ingvars
    /\ UNCHANGED narvars
    /\ UNCHANGED jobvars
    /\ UNCHANGED fnvars
    /\ UNCHANGED scanvars

\* submit_batch raises: the except branch, then sleep(delay_seconds)
SubmitRaises(i) ==
    /\ task[i].pc = "submitting"
    /\ bf' = [bf EXCEPT !.errors = @ + 1, !.last_error = "submit"]
    /\ task' = [task EXCEPT ![i].pc = "errsleep"]
    /\ UNCHANGED <<req, remote, hist>>
    /\ faults < MaxFaults
    /\ faults' = faults + 1
    /\ UNCHANGED ingvars
    /\ UNCHANGED narvars
    /\ UNCHANGED jobvars
    /\ UNCHANGED fnvars
    /\ UNCHANGED scanvars

\* poll_and_update_status returns the status the remote reports
PollReturns(i) ==
    /\ task[i].pc = "polling"
    /\ LET job == remote[task[i].batch_id]
       IN  CASE job.status = "completed" ->
                  LET b == [bf EXCEPT !.batches_completed = @ + 1]
                      t == AfterPoll(task[i], bf.running)
                  IN  /\ task' = [task EXCEPT ![i] = t]
                      /\ bf' = FinallyState(b, t)
             [] job.status = "failed" ->
                  LET b == [bf EXCEPT !.errors = @ + 1, !.last_error = "None"]
                      t == AfterPoll(task[i], bf.running)
                  IN  /\ task' = [task EXCEPT ![i] = t]
                      /\ bf' = FinallyState(b, t)
             [] OTHER ->
                  /\ task' = [task EXCEPT ![i].pc = "pollsleep"]
                  /\ UNCHANGED bf
    /\ UNCHANGED <<req, remote, hist, faults>>
    /\ UNCHANGED ingvars
    /\ UNCHANGED narvars
    /\ UNCHANGED jobvars
    /\ UNCHANGED fnvars
    /\ UNCHANGED scanvars

\* the status request fails inside poll_and_update_status: it returns the
\* stored job, whose status is still "submitted"
PollUnchanged(i) ==
    /\ task[i].pc = "polling"
    /\ task' = [task EXCEPT ![i].pc = "pollsleep"]
    /\ UNCHANGED <<bf, req, remote, hist, faults>>
    /\ UNCHANGED ingvars
    /\ UNCHANGED narvars
    /\ UNCHANGED jobvars
    /\ UNCHANGED fnvars
    /\ UNCHANGED scanvars

\* poll_and_update_status raises (the job's state file is gone)
PollRaises(i) ==
    /\ task[i].pc = "polling"
    /\ bf' = [bf EXCEPT !.errors = @ + 1, !.last_error = "poll"]
    /\ task' = [task EXCEPT ![i].pc = "errsleep"]
    /\ UNCHANGED <<req, remote, hist>>
    /\ faults < MaxFaults
    /\ faults' = faults + 1
    /\ UNCHANGED ingvars
    /\ UNCHANGED narvars
    /\ UNCHANGED jobvars
    /\ UNCHANGED fnvars
    /\ UNCHANGED scanvars

\* PollWake with a poll loop that does not count its rounds
PollWakeUncounted(i) ==
    /\ task[i].pc = "pollsleep"
    /\ LET t == PollTop(task[i], bf.running)
       IN  /\ task' = [task EXCEPT ![i] = t]
           /\ bf' = FinallyState(bf, t)
    /\ UNCHANGED <<req, remote, hist, faults>>
    /\ UNCHANGED ingvars
    /\ UNCHANGED narvars
    /\ UNCHANGED jobvars
    /\ UNCHANGED fnvars
    /\ UNCHANGED scanvars

\* asyncio.sleep(30) ends: the next round of the poll loop
PollWake(i) ==
    /\ task[i].pc = "pollsleep"
    /\ LET t == PollTop([task[i] EXCEPT !.polls = @ + 1], bf.running)
       IN  /\ task' = [task EXCEPT ![i] = t]
           /\ bf' = FinallyState(bf, t)
    /\ UNCHANGED <<req, remote, hist, faults>>
    /\ UNCHANGED ingvars
    /\ UNCHANGED narvars
    /\ UNCHANGED jobvars
    /\ UNCHANGED fnvars
    /\ UNCHANGED scanvars

\* asyncio.sleep(delay_seconds) ends, after a batch or after an error
DelayWake(i) ==
    /\ task[i].pc \in {"delay", "errsleep"}
    /\ LET t == LoopTop([task[i] EXCEPT !.batch_num = @ + 1], bf.running)
       IN  /\ task' = [task EXCEPT ![i] = t]
           /\ bf' = FinallyState(bf, t)
    /\ UNCHANGED <<req, remote, hist, faults>>
    /\ UNCHANGED ingvars
    /\ UNCHANGED narvars
    /\ UNCHANGED jobvars
    /\ UNCHANGED fnvars
    /\ UNCHANGED scanvars

(***************************************************************************)
(* The remote batch API finishes a batch.                                  *)
(***************************************************************************)
RemoteCompletes(b) ==
    /\ b \in DOMAIN remote
    /\ remote[b].status = "in_progress"
    /\ remote' = [remote EXCEPT ![b].status = "completed"]
    /\ UNCHANGED <<bf, req, task, hist, faults>>
    /\ UNCHANGED ingvars
    /\ UNCHANGED narvars
    /\ UNCHANGED jobvars
    /\ UNCHANGED fnvars
    /\ UNCHANGED scanvars

RemoteFails(b) ==
    /\ b \in DOMAIN remote
    /\ remote[b].status = "in_progress"
    /\ remote' = [remote EXCEPT ![b].status = "failed"]
    /\ UNCHANGED <<bf, req, task, hist>>
    /\ faults < MaxFaults
    /\ faults' = faults + 1
    /\ UNCHANGED ingvars
    /\ UNCHANGED narvars
    /\ UNCHANGED jobvars
    /\ UNCHANGED fnvars
    /\ UNCHANGED scanvars

BackfillNext ==
    \/ \E i \in Reqs, bs \in BatchSizes, mb \in MaxBatchesChoices : StartArrive(i, bs, mb)
    \/ \E i \in Reqs : FetchRaises(i)
    \/ \E i \in Reqs, n \in PendingCounts : FetchReturns(i, n)
    \/ StopBackfill
    \/ \E i \in Reqs : TaskBegin(i)
    \/ \E i \in Reqs : SubmitReturns(i)
    \/ \E i \in Reqs : SubmitRaises(i)
    \/ \E i \in Reqs : PollReturns(i)
    \/ \E i \in Reqs : PollUnchanged(i)
    \/ \E i \in Reqs : PollRaises(i)
    \/ \E i \in Reqs : PollWake(i)
    \/ \E i \in Reqs : DelayWake(i)
    \/ \E b \in 1..(MaxStarts * MaxBatches) : RemoteCompletes(b)
    \/ \E b \in 1..(MaxStarts * MaxBatches) : RemoteFails(b)

SpecBackfill == BackfillInit /\ [][BackfillNext]_vars

\* a step of the background task of request i: the event loop runs a task
\* that is ready, an awaited call returns or raises, a sleep ends
TaskStep(i) ==
    \/ TaskBegin(i)
    \/ SubmitReturns(i)
    \/ SubmitRaises(i)
    \/ PollReturns(i)
    \/ PollUnchanged(i)
    \/ PollRaises(i)
    \/ PollWake(i)
    \/ DelayWake(i)

\* POST /backfill/start from a client that sends it only after the earlier
\* requests were answered and the runs they started have ended
StartInTurn(i, bs, mb) ==
    /\ \A j \in Reqs : j < i => (req[j].pc = "done" /\ ~ActivePc(task[j].pc))
    /\ StartArrive(i, bs, mb)

TurnNext ==
    \/ \E i \in Reqs, bs \in BatchSizes, mb \in MaxBatchesChoices : StartInTurn(i, bs, mb)
    \/ \E i \in Reqs : FetchRaises(i)
    \/ \E i \in Reqs, n \in PendingCounts : FetchReturns(i, n)
    \/ StopBackfill
    \/ \E i \in Reqs : TaskStep(i)
    \/ \E b \in 1..(MaxStarts * MaxBatches) : RemoteCompletes(b)
    \/ \E b \in 1..(MaxStarts * MaxBatches) : RemoteFails(b)

\* the orchestrator with its scheduling: every background task keeps
\* being run.  Nothing is assumed of Stop or of the remote service, which
\* may leave a batch in progress for ever; the runs follow one another.
SpecBackfillFair ==
    BackfillInit /\ [][TurnNext]_vars /\ \A i \in Reqs : WF_vars(TaskStep(i))

(***************************************************************************)
(* Claims about the backfill orchestrator                                  *)
(***************************************************************************)
ActiveLoops == {i \in Reqs : ActivePc(task[i].pc)}
InFlight == {b \in DOMAIN remote : remote[b].status = "in_progress"}

C2_StartRejectedWhileRunning ==
    [][\A i \in Reqs :
         /\ (req[i].pc = "new" /\ req'[i].pc # "new" /\ bf.running)
              => /\ req'[i].pc = "done"
                 /\ req'[i].response = "409"
                 /\ bf' = bf /\ task' = task /\ remote' = remote
         /\ req[i].response = "409"
              => (req'[i].response = "409" /\ task'[i].pc = "none")]_vars

\* a Start was answered 409 while a run was under way
C2_Witness ==
    \E i \in Reqs : req[i].response = "409" /\ task[i].pc = "none" /\ bf.running

ensure_collection(size) == IF size = 0 THEN embedding_dimension ELSE size

\* the script starts: load_state, ensure_collection, then the sorted file
\* list of the project
MainBegin ==
    /\ run.pc = "idle"
    /\ state' = load_state(sfile)
    /\ collection' = ensure_collection(collection)
    /\ run' = [NotRunning EXCEPT !.pc = "next", !.queue = jsonl_files]
    /\ ilast' = [op |-> "begin", file |-> 0, calls |-> {}]
    /\ UNCHANGED <<mtime, msgs, sfile, tmpfile, points, ifailed, sent>>
    /\ UNCHANGED bfvars
    /\ UNCHANGED narvars
    /\ UNCHANGED jobvars
    /\ UNCHANGED fnvars
    /\ UNCHANGED scanvars

\* top of `for jsonl_file in jsonl_files`: should_import_file decides
\* whether stream_import_file is entered or the file is passed over
FileCheck ==
    /\ run.pc = "next" /\ run.queue # << >>
    /\ LET f == Head(run.queue)
       IN  IF should_import_file(f, state, mtime[f])
           THEN /\ run' = [run EXCEPT !.pc = "stream", !.cur = f, !.chunk_index = 0,
                                      !.total_chunks = 0, !.remaining = msgs[f]]
                /\ ifailed' = [ifailed EXCEPT ![f] = FALSE]
                /\ ilast' = [op |-> "open", file |-> f, calls |-> {}]
           ELSE /\ run' = [run EXCEPT !.queue = Tail(@)]
                /\ ilast' = [op |-> "skip", file |-> f, calls |-> {}]
                /\ UNCHANGED ifailed
    /\ UNCHANGED <<mtime, msgs, sfile, tmpfile, points, state, collection, sent>>
    /\ UNCHANGED bfvars
    /\ UNCHANGED narvars
    /\ UNCHANGED jobvars
    /\ UNCHANGED fnvars
    /\ UNCHANGED scanvars

\* process_and_upload_chunk returns 1: the next MAX_CHUNK_SIZE messages (or
\* the remaining ones) are embedded and upserted as point (stem, chunk_index)
ChunkOk ==
    /\ run.pc = "stream" /\ run.remaining > 0
    /\ collection = embedding_dimension
    /\ sent' = sent \cup {embedding_dimension}
    /\ points' = points \cup {point_id(run.cur, run.chunk_index)}
    /\ run' = [run EXCEPT !.total_chunks = @ + 1, !.chunk_index = @ + 1,
                          !.remaining = @ - Min(MAX_CHUNK_SIZE, @)]
    /\ ilast' = [op |-> "chunk", file |-> run.cur, calls |-> {"embed", "upsert"}]
    /\ UNCHANGED <<mtime, msgs, sfile, tmpfile, state, ifailed, collection>>
    /\ UNCHANGED bfvars
    /\ UNCHANGED narvars
    /\ UNCHANGED jobvars
    /\ UNCHANGED fnvars
    /\ UNCHANGED scanvars

\* process_and_upload_chunk returns 0: the embedding call raised, the
\* embedding failed validation, or the upsert raised.  The failure is
\* logged and the stream goes on with the next chunk.
ChunkFails ==
    /\ run.pc = "stream" /\ run.remaining > 0
    /\ run' = [run EXCEPT !.chunk_index = @ + 1,
                          !.remaining = @ - Min(MAX_CHUNK_SIZE, @)]
    /\ ifailed' = [ifailed EXCEPT ![run.cur] = TRUE]
    /\ ilast' = [op |-> "chunk_failed", file |-> run.cur, calls |-> {"embed"}]
    /\ UNCHANGED <<mtime, msgs, sfile, tmpfile, points, state, collection, sent>>
    /\ UNCHANGED bfvars
    /\ UNCHANGED narvars
    /\ UNCHANGED jobvars
    /\ UNCHANGED fnvars
    /\ UNCHANGED scanvars

\* process_and_upload_chunk returns 0 after client.upsert was called: the
\* vector has the configured length (the check of len(embedding) against
\* embedding_dimension passed), the collection was created with another
\* vector size, and the store refuses the point.  The exception is logged
\* and the stream goes on with the next chunk.
ChunkRejected ==
    /\ run.pc = "stream" /\ run.remaining > 0
    /\ collection # embedding_dimension
    /\ sent' = sent \cup {embedding_dimension}
    /\ run' = [run EXCEPT !.chunk_index = @ + 1,
                          !.remaining = @ - Min(MAX_CHUNK_SIZE, @)]
    /\ ifailed' = [ifailed EXCEPT ![run.cur] = TRUE]
    /\ ilast' = [op |-> "chunk_rejected", file |-> run.cur,
                 calls |-> {"embed", "upsert"}]
    /\ UNCHANGED <<mtime, msgs, sfile, tmpfile, points, state, collection>>
    /\ UNCHANGED bfvars
    /\ UNCHANGED narvars
    /\ UNCHANGED jobvars
    /\ UNCHANGED fnvars
    /\ UNCHANGED scanvars

\* reading the transcript raises inside stream_import_file: the outer
\* except returns 0 and main records nothing for the file
StreamAborts ==
    /\ run.pc = "stream"
    /\ run' = [NotRunning EXCEPT !.pc = "next", !.queue = Tail(run.queue)]
    /\ ifailed' = [ifailed EXCEPT ![run.cur] = TRUE]
    /\ ilast' = [op |-> "aborted", file |-> run.cur, calls |-> {}]
    /\ UNCHANGED <<mtime, msgs, sfile, tmpfile, points, state, collection, sent>>
    /\ UNCHANGED bfvars
    /\ UNCHANGED narvars
    /\ UNCHANGED jobvars
    /\ UNCHANGED fnvars
    /\ UNCHANGED scanvars

\* stream_import_file returns total_chunks; main calls update_file_state
\* when it is positive and goes on to save_state
FileDone ==
    /\ run.pc = "stream" /\ run.remaining = 0
    /\ IF run.total_chunks > 0
       THEN /\ state' = update_file_state(run.cur, state, run.total_chunks,
                                          mtime[run.cur])
            /\ run' = [run EXCEPT !.pc = "save_open"]
            /\ ilast' = [op |-> "recorded", file |-> run.cur, calls |-> {}]
       ELSE /\ run' = [NotRunning EXCEPT !.pc = "next", !.queue = Tail(run.queue)]
            /\ ilast' = [op |-> "unrecorded", file |-> run.cur, calls |-> {}]
            /\ UNCHANGED state
    /\ UNCHANGED <<mtime, msgs, sfile, tmpfile, points, ifailed, collection, sent>>
    /\ UNCHANGED bfvars
    /\ UNCHANGED narvars
    /\ UNCHANGED jobvars
    /\ UNCHANGED fnvars
    /\ UNCHANGED scanvars

\* save_state: open(temp_file, 'w') creates or truncates STATE_FILE.tmp
SaveOpenTmp ==
    /\ run.pc = "save_open"
    /\ tmpfile' = Torn
    /\ run' = [run EXCEPT !.pc = "save_dump"]
    /\ ilast' = [op |-> "save_open", file |-> run.cur, calls |-> {"write"}]
    /\ UNCHANGED <<mtime, msgs, sfile, points, state, ifailed, collection, sent>>
    /\ UNCHANGED bfvars
    /\ UNCHANGED narvars
    /\ UNCHANGED jobvars
    /\ UNCHANGED fnvars
    /\ UNCHANGED scanvars

\* save_state: json.dump(state, f) and the close of the with block
SaveDumpTmp ==
    /\ run.pc = "save_dump"
    /\ tmpfile' = Complete(state)
    /\ run' = [run EXCEPT !.pc = "save_replace"]
    /\ ilast' = [op |-> "save_dump", file |-> run.cur, calls |-> {"write"}]
    /\ UNCHANGED <<mtime, msgs, sfile, points, state, ifailed, collection, sent>>
    /\ UNCHANGED bfvars
    /\ UNCHANGED narvars
    /\ UNCHANGED jobvars
    /\ UNCHANGED fnvars
    /\ UNCHANGED scanvars

\* save_state: os.replace(temp_file, STATE_FILE); main moves to the next file
SaveReplace ==
    /\ run.pc = "save_replace"
    /\ sfile' = tmpfile
    /\ tmpfile' = Missing
    /\ run' = [NotRunning EXCEPT !.pc = "next", !.queue = Tail(run.queue)]
    /\ ilast' = [op |-> "saved", file |-> run.cur, calls |-> {"write"}]
    /\ UNCHANGED <<mtime, msgs, points, state, ifailed, collection, sent>>
    /\ UNCHANGED bfvars
    /\ UNCHANGED narvars
    /\ UNCHANGED jobvars
    /\ UNCHANGED fnvars
    /\ UNCHANGED scanvars

\* the file list is exhausted: main returns and the process exits
MainEnd ==
    /\ run.pc = "next" /\ run.queue = << >>
    /\ run' = NotRunning
    /\ state' = EmptyDoc
    /\ ilast' = [op |-> "end", file |-> 0, calls |-> {}]
    /\ UNCHANGED <<mtime, msgs, sfile, tmpfile, points, ifailed, collection, sent>>
    /\ UNCHANGED bfvars
    /\ UNCHANGED narvars
    /\ UNCHANGED jobvars
    /\ UNCHANGED fnvars
    /\ UNCHANGED scanvars

\* the process is killed, or an exception leaves main (save_state raising
\* OSError): the state dict is lost, the files on disk stay as they are
ImporterCrash ==
    /\ run.pc # "idle"
    /\ run' = NotRunning
    /\ state' = EmptyDoc
    /\ ilast' = [op |-> "crash", file |-> 0, calls |-> {}]
    /\ UNCHANGED <<mtime, msgs, sfile, tmpfile, points, ifailed, collection, sent>>
    /\ UNCHANGED bfvars
    /\ UNCHANGED narvars
    /\ UNCHANGED jobvars
    /\ UNCHANGED fnvars
    /\ UNCHANGED scanvars

\* the transcript is appended to (or rewritten) by its owner: a later
\* st_mtime and possibly more messages
Touch(f, n) ==
    /\ mtime[f] < MaxMtime
    /\ n >= msgs[f]
    /\ mtime' = [mtime EXCEPT ![f] = @ + 1]
    /\ msgs' = [msgs EXCEPT ![f] = n]
    /\ ilast' = [op |-> "touch", file |-> f, calls |-> {}]
    /\ UNCHANGED <<sfile, tmpfile, points, state, run, ifailed, collection, sent>>
    /\ UNCHANGED bfvars
    /\ UNCHANGED narvars
    /\ UNCHANGED jobvars
    /\ UNCHANGED fnvars
    /\ UNCHANGED scanvars

IngestNext ==
    \/ MainBegin
    \/ FileCheck
    \/ ChunkOk
    \/ ChunkFails
    \/ ChunkRejected
    \/ StreamAborts
    \/ FileDone
    \/ SaveOpenTmp
    \/ SaveDumpTmp
    \/ SaveReplace
    \/ MainEnd
    \/ ImporterCrash
    \/ \E f \in Files, n \in 0..MaxMsgs : Touch(f, n)

SpecIngest == IngestInit /\ [][IngestNext]_vars

(***************************************************************************)
(* Claims about the streaming importer                                     *)
(***************************************************************************)
InProgress(f) == run.pc \notin {"idle", "next"} /\ run.cur = f

\* C6: a transcript whose latest ingestion lost a chunk (embedding,
\* validation or upsert failed) is not recorded as ingested in the state
\* file: once the importer has left the file, the next scan imports it again.
C6_FailedFileReingested ==
    \A f \in Files :
        (ifailed[f] /\ ~InProgress(f))
            => should_import_file(f, load_state(sfile), mtime[f])

C8_SkipIffUnchanged ==
    [][(run.pc = "next" /\ run.queue # << >> /\ ilast'.op \in {"skip", "open"})
         => LET f == Head(run.queue)
                unchanged == /\ f \in DOMAIN state
                             /\ state[f].last_modified = mtime[f]
            IN  /\ (ilast'.op = "skip") <=> unchanged
                /\ unchanged
                     => /\ ilast'.calls = {}
                        /\ points' = points /\ state' = state
                        /\ sfile' = sfile /\ tmpfile' = tmpfile
                        /\ run'.pc = "next" /\ run'.queue = Tail(run.queue)
                /\ ~unchanged
                     => (run'.pc = "stream" /\ run'.cur = f)]_vars

\* a later scan has just passed over a file that was ingested and recorded
\* by an earlier one and has not been modified since
C8_Witness ==
    /\ ilast.op = "skip" /\ ilast.calls = {}
    /\ ilast.file \in DOMAIN state
    /\ state[ilast.file].last_modified = mtime[ilast.file]
    /\ <<ilast.file, 0>> \in points
    /\ sfile = Complete(state)

(***************************************************************************)
(* Narrative worker: the unified state file and candidate selection.       *)
(*                                                                         *)
(* The document of UNIFIED_STATE_FILE is {"files": {path: record}}; it is  *)
(* modelled by the function path -> record.  The conversation id of a path *)
(* is its stem; the paths of the model have pairwise different stems, as   *)
(* transcripts named by session UUIDs have.  The worker is its own process *)
(* with one coroutine; the cleanup runs in the worker between cycles or in *)
(* the admin API, which is a different process, at any time.               *)
(***************************************************************************)
Stem(p) == p

Range(seq) == {seq[k] : k \in DOMAIN seq}

\* the project of an entry, taken from its collection name conv_<project>_...;
\* the collection follows from the directory of the path
ProjectOf(p) == IF p < NumConvs THEN "A" ELSE "B"

\* create_and_process_batch: the project of a batch is the project of its
\* conversations when they share one, else 'mixed'
BatchProject(batch) ==
    LET projects == {ProjectOf(p) : p \in Range(batch)}
    IN  IF Cardinality(projects) = 1 THEN CHOOSE x \in projects : TRUE ELSE "mixed"

\* store_narrative upserts the point md5(conversation_id) into the
\* collection narratives_<md5(project)>
store_narrative(store, project, conversation_id) ==
    store \cup {<<project, conversation_id>>}

\* store_narrative for each of the conversations
StoreAll(store, project, conversation_ids) ==
    store \cup UNION {store_narrative(store, project, c) : c \in conversation_ids}

\* a narrative is stored for the conversation, in some collection
Stored(conversation_id) == \E pt \in narratives : pt[2] = conversation_id

\* the records a completed or unfinished import leaves in the state file
ImportedEntries ==
    [status : {"completed", "pending"}, chunks : {0, 1},
     imported_at : 1..MaxImportedAt,
     has_narrative : {"unset"}, narrative_generated_at : {"unset"}]

\* the filter of get_conversations_without_narrative
Eligible(doc, ex) ==
    {p \in DOMAIN doc :
        /\ doc[p].has_narrative # "true"
        /\ doc[p].status = "completed"
        /\ doc[p].chunks # 0
        /\ ex[p]}

\* conversations.sort(key=imported_at, reverse=True): newest first, entries
\* of equal imported_at in the order of the document (the sort is stable)
RECURSIVE SortNewestFirst(_, _)
SortNewestFirst(doc, S) ==
    IF S = {} THEN << >>
    ELSE LET m == CHOOSE x \in S : \A y \in S :
                     \/ doc[x].imported_at > doc[y].imported_at
                     \/ doc[x].imported_at = doc[y].imported_at /\ x <= y
         IN  <<m>> \o SortNewestFirst(doc, S \ {m})

\* get_conversations_without_narrative(limit)
get_conversations_without_narrative(doc, ex, limit) ==
    LET conversations == SortNewestFirst(doc, Eligible(doc, ex))
    IN  SubSeq(conversations, 1, Min(limit, Len(conversations)))

\* the ids process_batch_results marks although their narrative is not stored
all_ids(outcome) == {Stem(p) : p \in DOMAIN outcome}

\* successful_ids of process_batch_results: the ids whose narrative was stored
successful_ids(outcome) == {Stem(p) : p \in {q \in DOMAIN outcome : outcome[q] = "stored"}}

\* an update_unified_state_narrative that marks no entry
MarkNoEntry(doc, conversation_ids) == doc

\* the document update_unified_state_narrative writes back
MarkNarratives(doc, conversation_ids) ==
    [p \in DOMAIN doc |->
        IF Stem(p) \in conversation_ids
        THEN [doc[p] EXCEPT !.has_narrative = "true",
                            !.narrative_generated_at = "now"]
        ELSE doc[p]]

\* a cleanup that deletes every entry
RemoveEveryEntry(doc, ex) == [p \in {q \in DOMAIN doc : FALSE} |-> doc[p]]

\* the document cleanup_orphaned_entries writes back
RemoveOrphans(doc, ex) == [p \in {q \in DOMAIN doc : ex[q]} |-> doc[p]]

\* the worker starts on a state file the importer has filled; every
\* transcript is on disk, no narrative is stored
NarrativeInit ==
    /\ bf = InitialBackfillState
    /\ req = [i \in Reqs |-> NewReq]
    /\ task = [i \in Reqs |-> NoTask]
    /\ remote = << >>
    /\ hist = [i \in Reqs |-> NoHist]
    /\ faults = 0
    /\ mtime = [f \in Files |-> 1]
    /\ msgs = [f \in Files |-> 0]
    /\ sfile = Missing
    /\ tmpfile = Missing
    /\ points = {}
    /\ state = EmptyDoc
    /\ run = NotRunning
    /\ ilast = NoStep
    /\ ifailed = [f \in Files |-> FALSE]
    /\ collection = 0
    /\ sent = {}
    /\ ufile \in {Complete(d) : d \in [Paths -> ImportedEntries]}
    /\ exists = [p \in Paths |-> TRUE]
    /\ worker = WorkerIdle
    /\ cleaner = CleanerIdle
    /\ narratives = {}
    /\ nfailed = {}
    /\ jobs = << >>
    /\ dash = << >>
    /\ jlast = NoOp
    /\ selected = NoSelection
    /\ pollers = << >>
    /\ fnpc = "none"
    /\ chunk_list = << >>
    /\ batches = << >>
    /\ project_path = << >>
    /\ project_name = << >>
    /\ arg = << >>
    /\ ret = << >>
    /\ scan = NoScan

(***************************************************************************)
(* Narrative worker: run_worker_cycle, one action per step between awaits  *)
(***************************************************************************)
Outcomes == {"stored", "error", "store_failed", "absent"}

\* run_worker_cycle up to the await of submit_batch.  A missing state file
\* gives no candidates, an unparsable one raises into worker_loop, fewer
\* than MIN_CONVERSATIONS_FOR_BATCH candidates end the cycle.
CycleSelect ==
    /\ worker.pc = "idle"
    /\ LET conversations ==
               IF ufile.kind = "doc"
               THEN get_conversations_without_narrative(ufile.doc, exists, BATCH_SIZE)
               ELSE << >>
       IN  IF Len(conversations) < MIN_CONVERSATIONS_FOR_BATCH
           THEN UNCHANGED worker
           ELSE worker' = [WorkerIdle EXCEPT
                             !.pc = "submitting",
                             !.batch = SubSeq(conversations, 1,
                                              Min(BATCH_SIZE, Len(conversations)))]
    /\ UNCHANGED <<ufile, exists, cleaner, narratives, nfailed>>
    /\ UNCHANGED bfvars
    /\ UNCHANGED ingvars
    /\ UNCHANGED jobvars
    /\ UNCHANGED fnvars
    /\ UNCHANGED scanvars

\* submit_batch returns a job: the worker goes on to poll it
SubmitBatchOk ==
    /\ worker.pc = "submitting"
    /\ worker' = [worker EXCEPT !.pc = "polling"]
    /\ UNCHANGED <<ufile, exists, cleaner, narratives, nfailed>>
    /\ UNCHANGED bfvars
    /\ UNCHANGED ingvars
    /\ UNCHANGED jobvars
    /\ UNCHANGED fnvars
    /\ UNCHANGED scanvars

\* submit_batch raises or returns no batch_id: create_and_process_batch
\* returns None
SubmitBatchRaises ==
    /\ worker.pc = "submitting"
    /\ worker' = WorkerIdle
    /\ nfailed' = nfailed \cup Range(worker.batch)
    /\ UNCHANGED <<ufile, exists, cleaner, narratives>>
    /\ UNCHANGED bfvars
    /\ UNCHANGED ingvars
    /\ UNCHANGED jobvars
    /\ UNCHANGED fnvars
    /\ UNCHANGED scanvars

\* poll_batch_until_complete returns True
BatchCompletes ==
    /\ worker.pc = "polling"
    /\ worker' = [worker EXCEPT !.pc = "processing"]
    /\ UNCHANGED <<ufile, exists, cleaner, narratives, nfailed>>
    /\ UNCHANGED bfvars
    /\ UNCHANGED ingvars
    /\ UNCHANGED jobvars
    /\ UNCHANGED fnvars
    /\ UNCHANGED scanvars

\* poll_batch_until_complete returns False: the batch failed or the wait
\* timed out; nothing is stored and nothing is marked
BatchFails ==
    /\ worker.pc = "polling"
    /\ worker' = WorkerIdle
    /\ nfailed' = nfailed \cup Range(worker.batch)
    /\ UNCHANGED <<ufile, exists, cleaner, narratives>>
    /\ UNCHANGED bfvars
    /\ UNCHANGED ingvars
    /\ UNCHANGED jobvars
    /\ UNCHANGED fnvars
    /\ UNCHANGED scanvars

\* process_batch_results up to update_unified_state_narrative: each
\* conversation of the batch has a stored narrative, an error result, a
\* narrative whose store raised, or no usable result
ProcessResults(outcome) ==
    /\ worker.pc = "processing"
    /\ outcome \in [Range(worker.batch) -> Outcomes]
    /\ narratives' = StoreAll(narratives, BatchProject(worker.batch),
                              {Stem(p) : p \in {q \in DOMAIN outcome :
                                                    outcome[q] = "stored"}})
    /\ nfailed' = (nfailed \ Range(worker.batch)) \cup
                     {p \in DOMAIN outcome : outcome[p] # "stored"}
    /\ IF successful_ids(outcome) # {}
       THEN worker' = [worker EXCEPT !.pc = "mark_read",
                                     !.successful = successful_ids(outcome)]
       ELSE worker' = WorkerIdle
    /\ UNCHANGED <<ufile, exists, cleaner>>
    /\ UNCHANGED bfvars
    /\ UNCHANGED ingvars
    /\ UNCHANGED jobvars
    /\ UNCHANGED fnvars
    /\ UNCHANGED scanvars

\* get_job or get_batch_results raises: process_batch_results returns 0
ProcessRaises ==
    /\ worker.pc = "processing"
    /\ worker' = WorkerIdle
    /\ nfailed' = nfailed \cup Range(worker.batch)
    /\ UNCHANGED <<ufile, exists, cleaner, narratives>>
    /\ UNCHANGED bfvars
    /\ UNCHANGED ingvars
    /\ UNCHANGED jobvars
    /\ UNCHANGED fnvars
    /\ UNCHANGED scanvars

\* update_unified_state_narrative reads the state file and marks the
\* entries in memory; a missing file returns, an unparsable one raises
\* into process_batch_results
MarkRead ==
    /\ worker.pc = "mark_read"
    /\ IF ufile.kind = "doc"
       THEN worker' = [worker EXCEPT
                         !.pc = "mark_open",
                         !.doc = MarkNarratives(ufile.doc, worker.successful)]
       ELSE worker' = WorkerIdle
    /\ UNCHANGED <<ufile, exists, cleaner, narratives, nfailed>>
    /\ UNCHANGED bfvars
    /\ UNCHANGED ingvars
    /\ UNCHANGED jobvars
    /\ UNCHANGED fnvars
    /\ UNCHANGED scanvars

\* update_unified_state_narrative: aiofiles.open(UNIFIED_STATE_FILE, 'w')
\* truncates the state file in place
MarkOpen ==
    /\ worker.pc = "mark_open"
    /\ ufile' = Torn
    /\ worker' = [worker EXCEPT !.pc = "mark_write"]
    /\ UNCHANGED <<exists, cleaner, narratives, nfailed>>
    /\ UNCHANGED bfvars
    /\ UNCHANGED ingvars
    /\ UNCHANGED jobvars
    /\ UNCHANGED fnvars
    /\ UNCHANGED scanvars

\* update_unified_state_narrative: f.write(json.dumps(state)) and the close
MarkWrite ==
    /\ worker.pc = "mark_write"
    /\ ufile' = Complete(worker.doc)
    /\ worker' = WorkerIdle
    /\ UNCHANGED <<exists, cleaner, narratives, nfailed>>
    /\ UNCHANGED bfvars
    /\ UNCHANGED ingvars
    /\ UNCHANGED jobvars
    /\ UNCHANGED fnvars
    /\ UNCHANGED scanvars

\* the worker process is killed and started again
WorkerCrash ==
    /\ worker.pc # "idle"
    /\ worker' = WorkerIdle
    /\ UNCHANGED <<ufile, exists, cleaner, narratives, nfailed>>
    /\ UNCHANGED bfvars
    /\ UNCHANGED ingvars
    /\ UNCHANGED jobvars
    /\ UNCHANGED fnvars
    /\ UNCHANGED scanvars

(***************************************************************************)
(* cleanup_orphaned_entries (worker loop and POST /backfill/cleanup)       *)
(***************************************************************************)
\* the read and the in-memory removal.  A missing or unparsable state file
\* returns (0, 0); without orphans the call returns (original_count, 0)
\* without writing
CleanupRead ==
    /\ cleaner.pc = "idle"
    /\ IF ufile.kind # "doc"
       THEN cleaner' = [CleanerIdle EXCEPT !.pc = "returned"]
       ELSE LET original_count == Cardinality(DOMAIN ufile.doc)
            IN  IF RemoveOrphans(ufile.doc, exists) # ufile.doc
                THEN cleaner' = [pc |-> "open",
                                 doc |-> RemoveOrphans(ufile.doc, exists),
                                 checked |-> original_count, removed |-> 0]
                ELSE cleaner' = [CleanerIdle EXCEPT !.pc = "returned",
                                                    !.checked = original_count]
    /\ UNCHANGED <<ufile, exists, worker, narratives, nfailed>>
    /\ UNCHANGED bfvars
    /\ UNCHANGED ingvars
    /\ UNCHANGED jobvars
    /\ UNCHANGED fnvars
    /\ UNCHANGED scanvars

\* aiofiles.open(UNIFIED_STATE_FILE, 'w') truncates the state file in place
CleanupOpen ==
    /\ cleaner.pc = "open"
    /\ ufile' = Torn
    /\ cleaner' = [cleaner EXCEPT !.pc = "write"]
    /\ UNCHANGED <<exists, worker, narratives, nfailed>>
    /\ UNCHANGED bfvars
    /\ UNCHANGED ingvars
    /\ UNCHANGED jobvars
    /\ UNCHANGED fnvars
    /\ UNCHANGED scanvars

\* the open raises (PermissionError): the state file is left as it was and
\* the call returns (original_count, 0)
CleanupOpenFails ==
    /\ cleaner.pc = "open"
    /\ cleaner' = [CleanerIdle EXCEPT !.pc = "returned",
                                      !.checked = cleaner.checked]
    /\ UNCHANGED <<ufile, exists, worker, narratives, nfailed>>
    /\ UNCHANGED bfvars
    /\ UNCHANGED ingvars
    /\ UNCHANGED jobvars
    /\ UNCHANGED fnvars
    /\ UNCHANGED scanvars

\* f.write(json.dumps(state)) and the close; the call returns
\* (original_count, len(orphaned_paths))
CleanupWrite ==
    /\ cleaner.pc = "write"
    /\ ufile' = Complete(cleaner.doc)
    /\ cleaner' = [CleanerIdle EXCEPT
                     !.pc = "returned",
                     !.checked = cleaner.checked,
                     !.removed = cleaner.checked - Cardinality(DOMAIN cleaner.doc)]
    /\ UNCHANGED <<exists, worker, narratives, nfailed>>
    /\ UNCHANGED bfvars
    /\ UNCHANGED ingvars
    /\ UNCHANGED jobvars
    /\ UNCHANGED fnvars
    /\ UNCHANGED scanvars

\* f.write raises after the open (disk full, I/O error): `except Exception`
\* logs a warning and the call returns (original_count, 0); the state file
\* stays as the open left it
CleanupWriteFails ==
    /\ cleaner.pc = "write"
    /\ cleaner' = [CleanerIdle EXCEPT !.pc = "returned",
                                      !.checked = cleaner.checked]
    /\ UNCHANGED <<ufile, exists, worker, narratives, nfailed>>
    /\ UNCHANGED bfvars
    /\ UNCHANGED ingvars
    /\ UNCHANGED jobvars
    /\ UNCHANGED fnvars
    /\ UNCHANGED scanvars

\* the caller has logged the returned pair
CleanupReturn ==
    /\ cleaner.pc = "returned"
    /\ cleaner' = CleanerIdle
    /\ UNCHANGED <<ufile, exists, worker, narratives, nfailed>>
    /\ UNCHANGED bfvars
    /\ UNCHANGED ingvars
    /\ UNCHANGED jobvars
    /\ UNCHANGED fnvars
    /\ UNCHANGED scanvars

\* the process running the cleanup is killed
CleanerCrash ==
    /\ cleaner.pc \in {"open", "write"}
    /\ cleaner' = CleanerIdle
    /\ UNCHANGED <<ufile, exists, worker, narratives, nfailed>>
    /\ UNCHANGED bfvars
    /\ UNCHANGED ingvars
    /\ UNCHANGED jobvars
    /\ UNCHANGED fnvars
    /\ UNCHANGED scanvars

\* the user deletes a transcript
DeleteTranscript(p) ==
    /\ exists[p]
    /\ exists' = [exists EXCEPT ![p] = FALSE]
    /\ UNCHANGED <<ufile, worker, cleaner, narratives, nfailed>>
    /\ UNCHANGED bfvars
    /\ UNCHANGED ingvars
    /\ UNCHANGED jobvars
    /\ UNCHANGED fnvars
    /\ UNCHANGED scanvars

NarrativeNext ==
    \/ CycleSelect
    \/ SubmitBatchOk
    \/ SubmitBatchRaises
    \/ BatchCompletes
    \/ BatchFails
    \/ \E outcome \in [Range(worker.batch) -> Outcomes] : ProcessResults(outcome)
    \/ ProcessRaises
    \/ MarkRead
    \/ MarkOpen
    \/ MarkWrite
    \/ WorkerCrash
    \/ CleanupRead
    \/ CleanupOpen
    \/ CleanupOpenFails
    \/ CleanupWrite
    \/ CleanupWriteFails
    \/ CleanupReturn
    \/ CleanerCrash
    \/ \E p \in Paths : DeleteTranscript(p)

SpecNarrative == NarrativeInit /\ [][NarrativeNext]_vars

(***************************************************************************)
(* Claims about the state file and the narrative marking                   *)
(***************************************************************************)
\* C9: whenever no writer is between the open and the close of a write (in
\* particular after a writer crashed there), the state files hold a
\* complete document: the importer's STATE_FILE and the UNIFIED_STATE_FILE
\* rewritten by the narrative marking and by the orphan cleanup.
C9_NoTruncatedStateFile ==
    /\ sfile.kind # "torn"
    /\ (worker.pc # "mark_write" /\ cleaner.pc # "write") => ufile.kind # "torn"

RemoteStatuses ==
    {"validating", "in_progress", "finalizing", "completed",
     "failed", "expired", "cancelling", "cancelled"}

\* status_map.get(dashscope_status, dashscope_status)
status_map(dashscope_status) ==
    CASE dashscope_status = "validating" -> "pending"
      [] dashscope_status = "in_progress" -> "in_progress"
      [] dashscope_status = "completed" -> "completed"
      [] dashscope_status \in {"failed", "expired", "cancelled"} -> "failed"
      [] OTHER -> dashscope_status

\* the statuses the remote can move to from a status
RemoteSuccessors(st) ==
    CASE st = "validating" -> {"in_progress", "failed"}
      [] st = "in_progress" -> {"finalizing", "expired", "cancelling"}
      [] st = "finalizing" -> {"completed"}
      [] st = "cancelling" -> {"cancelled"}
      [] OTHER -> {}

\* prepare_batch_file: the conversations of the request that get a line in
\* the batch file, those with a completed entry whose transcript exists
BatchRequests(doc, ex, conversation_ids) ==
    {c \in conversation_ids :
        \E p \in DOMAIN doc : Stem(p) = c /\ doc[p].status = "completed" /\ ex[p]}

\* the entries a job request can name: imported, completely or not
JobEntries ==
    [status : {"completed", "pending"}, chunks : {1}, imported_at : {1},
     has_narrative : {"unset"}, narrative_generated_at : {"unset"}]

\* the admin API with no batch job, on a state file the importer has
\* filled; every transcript is on disk, no narrative is stored
JobsInit ==
    /\ bf = InitialBackfillState
    /\ req = [i \in Reqs |-> NewReq]
    /\ task = [i \in Reqs |-> NoTask]
    /\ remote = << >>
    /\ hist = [i \in Reqs |-> NoHist]
    /\ faults = 0
    /\ mtime = [f \in Files |-> 1]
    /\ msgs = [f \in Files |-> 0]
    /\ sfile = Missing
    /\ tmpfile = Missing
    /\ points = {}
    /\ state = EmptyDoc
    /\ run = NotRunning
    /\ ilast = NoStep
    /\ ifailed = [f \in Files |-> FALSE]
    /\ collection = 0
    /\ sent = {}
    /\ ufile \in {Complete(d) : d \in [Paths -> JobEntries]}
    /\ exists = [p \in Paths |-> TRUE]
    /\ worker = WorkerIdle
    /\ cleaner = CleanerIdle
    /\ narratives = {}
    /\ nfailed = {}
    /\ jobs = << >>
    /\ dash = << >>
    /\ jlast = NoOp
    /\ selected = NoSelection
    /\ pollers = << >>
    /\ fnpc = "none"
    /\ chunk_list = << >>
    /\ batches = << >>
    /\ project_path = << >>
    /\ project_name = << >>
    /\ arg = << >>
    /\ ret = << >>
    /\ scan = NoScan

\* poll_batch_status as create_batch_job and refresh_batch_status schedule
\* it: no poll made yet
NoJob == [status |-> "none", output_file_id |-> "none", project |-> "none",
          conversations |-> {}]
NewPoller == [pc |-> "polling", retries |-> 0, state |-> NoJob]

\* POST /jobs: submit_batch prepares and uploads the batch file, creates
\* the remote batch and writes the job's state file, and the handler
\* schedules poll_batch_status for the job; submit_batch raises when the
\* state file cannot be read or no conversation of the request is usable
CreateJob(conversation_ids, project) ==
    /\ Len(jobs) < MaxJobs
    /\ conversation_ids # {}
    /\ IF /\ ufile.kind = "doc"
          /\ BatchRequests(ufile.doc, exists, conversation_ids) # {}
       THEN /\ jobs' = Append(jobs, [status |-> "submitted",
                                      output_file_id |-> "none",
                                      project |-> project,
                                      conversations |-> conversation_ids])
            /\ dash' = Append(dash, [status |-> "validating",
                                      output_file_id |-> "none",
                                      requests |-> BatchRequests(ufile.doc, exists,
                                                                 conversation_ids)])
            /\ pollers' = Append(pollers, NewPoller)
            /\ jlast' = [op |-> "create", batch |-> Len(jobs) + 1, result |-> "created"]
       ELSE /\ jlast' = [op |-> "create", batch |-> 0, result |-> "error"]
            /\ UNCHANGED <<jobs, dash, pollers>>
    /\ UNCHANGED selected
    /\ UNCHANGED fnvars
    /\ UNCHANGED scanvars
    /\ UNCHANGED bfvars
    /\ UNCHANGED ingvars
    /\ UNCHANGED narvars

\* the remote service moves the batch on; a batch that completes has an
\* output file unless every request of it failed
DashAdvances(b, st, out) ==
    /\ b \in DOMAIN dash
    /\ st \in RemoteSuccessors(dash[b].status)
    /\ out = "file" => st = "completed"
    /\ dash' = [dash EXCEPT ![b].status = st, ![b].output_file_id = out]
    /\ UNCHANGED <<jobs, jlast>>
    /\ UNCHANGED <<selected, pollers>>
    /\ UNCHANGED fnvars
    /\ UNCHANGED scanvars
    /\ UNCHANGED bfvars
    /\ UNCHANGED ingvars
    /\ UNCHANGED narvars

\* poll_and_update_status: the remote answers; the local status is the
\* mapped remote status, and a completed batch brings its output file id
poll_and_update_status(job, remote_batch) ==
    [job EXCEPT
       !.status = status_map(remote_batch.status),
       !.output_file_id =
           IF status_map(remote_batch.status) = "completed"
           THEN remote_batch.output_file_id ELSE @]

\* POST /jobs/{job_id}/refresh: one poll_and_update_status; when the job is
\* still pending, in progress or submitted, poll_batch_status is scheduled
\* again
Poll(b) ==
    /\ b \in DOMAIN jobs
    /\ jobs' = [jobs EXCEPT ![b] = poll_and_update_status(@, dash[b])]
    /\ jlast' = [op |-> "poll", batch |-> b, result |-> status_map(dash[b].status)]
    /\ pollers' =
          IF /\ status_map(dash[b].status) \in {"pending", "in_progress", "submitted"}
             /\ pollers[b].pc \notin {"polling", "writing"}
          THEN [pollers EXCEPT ![b] = NewPoller]
          ELSE pollers
    /\ UNCHANGED dash
    /\ UNCHANGED selected
    /\ UNCHANGED fnvars
    /\ UNCHANGED scanvars
    /\ UNCHANGED bfvars
    /\ UNCHANGED ingvars
    /\ UNCHANGED narvars

\* poll_and_update_status: get_batch_status raises; the state file is
\* rewritten with the error and the status it had
PollError(b) ==
    /\ b \in DOMAIN jobs
    /\ jlast' = [op |-> "poll", batch |-> b, result |-> "error"]
    /\ UNCHANGED <<jobs, dash>>
    /\ UNCHANGED <<selected, pollers>>
    /\ UNCHANGED fnvars
    /\ UNCHANGED scanvars
    /\ UNCHANGED bfvars
    /\ UNCHANGED ingvars
    /\ UNCHANGED narvars

\* poll_batch_status, one round of its loop, first half:
\* poll_and_update_status has read the job's state file and the awaited
\* get_batch_status has answered; `state` is the dict the call will write
PollTaskFetch(b) ==
    /\ b \in DOMAIN pollers
    /\ pollers[b].pc = "polling" /\ pollers[b].retries < MaxRetries
    /\ pollers' = [pollers EXCEPT
                     ![b].pc = "writing",
                     ![b].state = poll_and_update_status(jobs[b], dash[b])]
    /\ UNCHANGED <<jobs, dash, jlast, selected>>
    /\ UNCHANGED fnvars
    /\ UNCHANGED scanvars
    /\ UNCHANGED bfvars
    /\ UNCHANGED ingvars
    /\ UNCHANGED narvars

\* poll_batch_status, one round of its loop, second half:
\* poll_and_update_status writes the state file and returns; the loop ends
\* when the status is completed or failed, and sleeps otherwise
PollTaskStep(b) ==
    /\ b \in DOMAIN pollers
    /\ pollers[b].pc = "writing"
    /\ jobs' = [jobs EXCEPT ![b] = pollers[b].state]
    /\ jlast' = [op |-> "poll", batch |-> b, result |-> pollers[b].state.status]
    /\ pollers' = [pollers EXCEPT
                     ![b].pc = IF pollers[b].state.status \in {"completed", "failed"}
                               THEN "finished" ELSE "polling",
                     ![b].retries = @ + 1,
                     ![b].state = NoJob]
    /\ UNCHANGED <<dash, selected>>
    /\ UNCHANGED fnvars
    /\ UNCHANGED scanvars
    /\ UNCHANGED bfvars
    /\ UNCHANGED ingvars
    /\ UNCHANGED narvars

\* poll_batch_status, one round of its loop: the poll raises, the error is
\* logged and the loop sleeps
PollTaskError(b) ==
    /\ b \in DOMAIN pollers
    /\ pollers[b].pc = "polling" /\ pollers[b].retries < MaxRetries
    /\ jlast' = [op |-> "poll", batch |-> b, result |-> "error"]
    /\ pollers' = [pollers EXCEPT ![b].retries = @ + 1]
    /\ UNCHANGED <<jobs, dash, selected>>
    /\ UNCHANGED fnvars
    /\ UNCHANGED scanvars
    /\ UNCHANGED bfvars
    /\ UNCHANGED ingvars
    /\ UNCHANGED narvars

\* poll_batch_status: range(max_retries) is used up and the function
\* returns; nothing is written to the job's state
PollTaskExhausted(b) ==
    /\ b \in DOMAIN pollers
    /\ pollers[b].pc = "polling" /\ pollers[b].retries = MaxRetries
    /\ pollers' = [pollers EXCEPT ![b].pc = "exhausted"]
    /\ jlast' = [op |-> "gave_up", batch |-> b, result |-> jobs[b].status]
    /\ UNCHANGED <<jobs, dash, selected>>
    /\ UNCHANGED fnvars
    /\ UNCHANGED scanvars
    /\ UNCHANGED bfvars
    /\ UNCHANGED ingvars
    /\ UNCHANGED narvars

\* get_batch_results without its checks
get_batch_results_unchecked(st) == "downloaded"

\* get_batch_results up to the download: what the call does for a job
\* state
get_batch_results(st) ==
    IF st.status # "completed" THEN "not_completed"
    ELSE IF st.output_file_id = "none" THEN "no_output"
    ELSE "downloaded"

\* GET /jobs/{job_id}/results
FetchResults(b) ==
    /\ b \in DOMAIN jobs
    /\ jlast' = [op |-> "results", batch |-> b, result |-> get_batch_results(jobs[b])]
    /\ UNCHANGED <<jobs, dash>>
    /\ UNCHANGED <<selected, pollers>>
    /\ UNCHANGED fnvars
    /\ UNCHANGED scanvars
    /\ UNCHANGED bfvars
    /\ UNCHANGED ingvars
    /\ UNCHANGED narvars

\* POST /jobs/{job_id}/process: the status check, get_batch_results, then
\* store_narrative for every result that carries a narrative.  A job
\* created without a project has project None, for which store_narrative
\* raises; the unified state file is not touched.
ProcessJob(b, outcome) ==
    /\ b \in DOMAIN jobs
    /\ outcome \in [dash[b].requests -> Outcomes]
    /\ IF jobs[b].status # "completed"
       THEN /\ jlast' = [op |-> "process", batch |-> b, result |-> "not_completed"]
            /\ UNCHANGED narratives
       ELSE IF get_batch_results(jobs[b]) # "downloaded"
       THEN /\ jlast' = [op |-> "process", batch |-> b,
                         result |-> get_batch_results(jobs[b])]
            /\ UNCHANGED narratives
       ELSE /\ jlast' = [op |-> "process", batch |-> b, result |-> "processed"]
            /\ narratives' =
                  IF jobs[b].project = "none" THEN narratives
                  ELSE StoreAll(narratives, jobs[b].project,
                                {c \in DOMAIN outcome : outcome[c] = "stored"})
    /\ UNCHANGED <<jobs, dash>>
    /\ UNCHANGED <<ufile, exists, worker, cleaner, nfailed>>
    /\ UNCHANGED <<selected, pollers>>
    /\ UNCHANGED fnvars
    /\ UNCHANGED scanvars
    /\ UNCHANGED bfvars
    /\ UNCHANGED ingvars

\* the user deletes a transcript while the admin API runs
JobsDeleteTranscript(p) ==
    /\ exists[p]
    /\ exists' = [exists EXCEPT ![p] = FALSE]
    /\ UNCHANGED <<ufile, worker, cleaner, narratives, nfailed>>
    /\ UNCHANGED jobvars
    /\ UNCHANGED fnvars
    /\ UNCHANGED scanvars
    /\ UNCHANGED bfvars
    /\ UNCHANGED ingvars

JobsNext ==
    \/ \E ids \in SUBSET {Stem(p) : p \in Paths}, project \in {"A", "none"} :
          CreateJob(ids, project)
    \/ \E b \in 1..MaxJobs, st \in RemoteStatuses, out \in {"none", "file"} :
          DashAdvances(b, st, out)
    \/ \E b \in 1..MaxJobs : Poll(b)
    \/ \E b \in 1..MaxJobs : PollError(b)
    \/ \E b \in 1..MaxJobs : PollTaskFetch(b)
    \/ \E b \in 1..MaxJobs : PollTaskStep(b)
    \/ \E b \in 1..MaxJobs : PollTaskError(b)
    \/ \E b \in 1..MaxJobs : PollTaskExhausted(b)
    \/ \E b \in 1..MaxJobs : FetchResults(b)
    \/ \E b \in DOMAIN jobs : \E outcome \in [dash[b].requests -> Outcomes] :
          ProcessJob(b, outcome)
    \/ \E p \in Paths : JobsDeleteTranscript(p)

SpecJobs == JobsInit /\ [][JobsNext]_vars

(***************************************************************************)
(* Claims about the batch jobs                                             *)
(***************************************************************************)
\* C11: once the admin process-results operation has stored the narratives
\* of a completed batch, every entry of the state file whose conversation
\* has a stored narrative has has_narrative = true and
\* narrative_generated_at set.
C11_StoredImpliesMarked ==
    (jlast.op = "process" /\ jlast.result = "processed" /\ ufile.kind = "doc")
        => \A p \in DOMAIN ufile.doc :
              Stored(Stem(p))
                 => /\ ufile.doc[p].has_narrative = "true"
                    /\ ufile.doc[p].narrative_generated_at # "unset"

C13_OnePointPerConversation ==
    \A p \in Paths :
        Cardinality({pt \in narratives : pt[2] = Stem(p)}) <= 1

\* C14: after every poll the local status of a batch is one of submitted,
\* pending, in_progress, completed and failed, whatever status the remote
\* returned.
C14_LocalStatusInSet ==
    \A b \in DOMAIN jobs :
        jobs[b].status \in {"submitted", "pending", "in_progress", "completed", "failed"}

\* C15: fetching or processing the results of a batch whose local status is
\* not completed, or that has no output file id, fails with an error,
\* downloads nothing and leaves the batch state unchanged; narratives are
\* stored only by processing a completed batch that has an output file.
C15_FetchRequiresCompleted ==
    [][/\ (jlast' # jlast /\ jlast'.op \in {"results", "process"})
            => LET st == jobs[jlast'.batch]
               IN  /\ jobs' = jobs
                   /\ dash' = dash
                   /\ st.status # "completed"
                         => /\ jlast'.result = "not_completed"
                            /\ narratives' = narratives
                   /\ (st.status = "completed" /\ st.output_file_id = "none")
                         => /\ jlast'.result = "no_output"
                            /\ narratives' = narratives
       /\ narratives' # narratives
            => /\ jlast'.op = "process"
               /\ jlast'.batch \in DOMAIN jobs
               /\ jobs[jlast'.batch].status = "completed"
               /\ jobs[jlast'.batch].output_file_id # "none"]_vars

\* the results of a batch that is still in progress were requested and the
\* request failed
C15_Witness ==
    /\ jlast.op = "results"
    /\ jlast.result = "not_completed"
    /\ jobs[jlast.batch].status = "in_progress"
    /\ dash[jlast.batch].requests # {}

(***************************************************************************)
(* Candidate selection: the narrative worker's                             *)
(* get_conversations_without_narrative, the one of BatchService behind     *)
(* GET /conversations/pending, and the call POST /backfill/start makes.    *)
(***************************************************************************)
\* the limits a selection is asked with
Limits == 1..MaxLimit

\* the project filter of a selection; "none" is no filter
ProjectFilters == {"none", "A"}

\* the records of the state file: imported completely or not, with or
\* without chunks, with or without a narrative
SelectEntries ==
    {[e EXCEPT !.has_narrative = h,
               !.narrative_generated_at = IF h = "true" THEN "now" ELSE "unset"] :
        e \in ImportedEntries, h \in {"unset", "true"}}

\* the filter of BatchService.get_conversations_without_narrative
ServiceEligible(doc, project) ==
    {p \in DOMAIN doc :
        /\ doc[p].has_narrative # "true"
        /\ doc[p].status = "completed"
        /\ (project = "none" \/ ProjectOf(p) = project)}

\* BatchService.get_conversations_without_narrative(project, limit)
BatchService_get_conversations_without_narrative(doc, project, limit) ==
    LET conversations == SortNewestFirst(doc, ServiceEligible(doc, project))
    IN  SubSeq(conversations, 1, Min(limit, Len(conversations)))

\* a state file the importer and the worker have filled; every transcript
\* is on disk
SelectInit ==
    /\ bf = InitialBackfillState
    /\ req = [i \in Reqs |-> NewReq]
    /\ task = [i \in Reqs |-> NoTask]
    /\ remote = << >>
    /\ hist = [i \in Reqs |-> NoHist]
    /\ faults = 0
    /\ mtime = [f \in Files |-> 1]
    /\ msgs = [f \in Files |-> 0]
    /\ sfile = Missing
    /\ tmpfile = Missing
    /\ points = {}
    /\ state = EmptyDoc
    /\ run = NotRunning
    /\ ilast = NoStep
    /\ ifailed = [f \in Files |-> FALSE]
    /\ collection = 0
    /\ sent = {}
    /\ ufile \in {Complete(d) : d \in [Paths -> SelectEntries]}
    /\ exists = [p \in Paths |-> TRUE]
    /\ worker = WorkerIdle
    /\ cleaner = CleanerIdle
    /\ narratives = {}
    /\ nfailed = {}
    /\ jobs = << >>
    /\ dash = << >>
    /\ jlast = NoOp
    /\ selected = NoSelection
    /\ pollers = << >>
    /\ fnpc = "none"
    /\ chunk_list = << >>
    /\ batches = << >>
    /\ project_path = << >>
    /\ project_name = << >>
    /\ arg = << >>
    /\ ret = << >>
    /\ scan = NoScan

\* the narrative worker selects its candidates
WorkerSelect(limit) ==
    /\ selected' = [op |-> "worker", project |-> "none", limit |-> limit,
                    result |-> get_conversations_without_narrative(ufile.doc, exists, limit),
                    raised |-> FALSE]
    /\ UNCHANGED <<jobs, dash, jlast, pollers>>
    /\ UNCHANGED fnvars
    /\ UNCHANGED scanvars
    /\ UNCHANGED bfvars
    /\ UNCHANGED ingvars
    /\ UNCHANGED narvars

\* GET /conversations/pending
PendingQuery(project, limit) ==
    /\ selected' = [op |-> "pending", project |-> project, limit |-> limit,
                    result |-> BatchService_get_conversations_without_narrative(
                                   ufile.doc, project, limit),
                    raised |-> FALSE]
    /\ UNCHANGED <<jobs, dash, jlast, pollers>>
    /\ UNCHANGED fnvars
    /\ UNCHANGED scanvars
    /\ UNCHANGED bfvars
    /\ UNCHANGED ingvars
    /\ UNCHANGED narvars

\* the selection of POST /backfill/start: the call passes
\* validate_existence, a keyword the method does not take, and raises
StartSelect(limit) ==
    /\ selected' = [op |-> "start", project |-> "none", limit |-> limit,
                    result |-> << >>, raised |-> TRUE]
    /\ UNCHANGED <<jobs, dash, jlast, pollers>>
    /\ UNCHANGED fnvars
    /\ UNCHANGED scanvars
    /\ UNCHANGED bfvars
    /\ UNCHANGED ingvars
    /\ UNCHANGED narvars

\* the user deletes a transcript
SelectDeleteTranscript(p) ==
    /\ exists[p]
    /\ exists' = [exists EXCEPT ![p] = FALSE]
    /\ UNCHANGED <<ufile, worker, cleaner, narratives, nfailed>>
    /\ UNCHANGED jobvars
    /\ UNCHANGED fnvars
    /\ UNCHANGED scanvars
    /\ UNCHANGED bfvars
    /\ UNCHANGED ingvars

SelectNext ==
    \/ \E limit \in Limits : WorkerSelect(limit)
    \/ \E project \in ProjectFilters, limit \in Limits : PendingQuery(project, limit)
    \/ \E limit \in Limits : StartSelect(limit)
    \/ \E p \in Paths : SelectDeleteTranscript(p)

SpecSelect == SelectInit /\ [][SelectNext]_vars

\* C16: every candidate selection (the worker's, the pending query's and the
\* one of backfill Start) returns exactly the records that are completed,
\* have no narrative, have chunks and whose file exists, restricted to the
\* project asked for, newest first and truncated to the limit.
C16_SelectsEligibleNewestFirst ==
    [][selected' # selected
          => LET r == selected'.result
                 doc == ufile.doc
                 E == {p \in DOMAIN doc :
                          /\ doc[p].status = "completed"
                          /\ doc[p].has_narrative # "true"
                          /\ doc[p].chunks > 0
                          /\ exists[p]
                          /\ (selected'.project = "none"
                                 \/ ProjectOf(p) = selected'.project)}
             IN  /\ ~selected'.raised
                 /\ Range(r) \subseteq E
                 /\ Len(r) = Min(selected'.limit, Cardinality(E))
                 /\ \A i, j \in DOMAIN r :
                       i < j => /\ r[i] # r[j]
                                /\ doc[r[i]].imported_at >= doc[r[j]].imported_at
                 /\ \A p \in E \ Range(r), q \in Range(r) :
                       doc[q].imported_at >= doc[p].imported_at]_vars

C18_ReingestSamePoints ==
    [][/\ (run.pc = "stream" /\ run'.pc = "stream"
              /\ run'.total_chunks > run.total_chunks)
            => /\ points' = points \cup {<<run.cur, run.chunk_index>>}
               /\ <<run.cur, run.chunk_index>> \in points => points' = points
       /\ \A f \in Files :
             Cardinality({pt \in points' : pt[1] = f}) <= NumChunks(msgs'[f])
       /\ (run.pc = "stream" /\ run'.pc = "save_open")
            => /\ run.cur \in DOMAIN state'
               /\ state'[run.cur].last_modified = mtime[run.cur]]_vars

\* a transcript recorded at an earlier mtime has been streamed again after
\* its mtime changed: both its chunks were upserted again and it still has
\* two points
C18_Witness ==
    /\ run.pc = "stream" /\ run.remaining = 0 /\ run.total_chunks = 2
    /\ run.cur \in DOMAIN state
    /\ state[run.cur].last_modified < mtime[run.cur]
    /\ state[run.cur].chunks = 2
    /\ NumChunks(msgs[run.cur]) = 2
    /\ {pt \in points : pt[1] = run.cur} = {<<run.cur, 0>>, <<run.cur, 1>>}

\* C19: when the ingestion of a transcript of M messages (not modified
\* while it was streamed) has just been recorded, the recorded chunk count
\* is ceil(M/N) and the chunk_index values of the points stored for it are
\* exactly 0..chunks-1.
C19_IndexesMatchRecordedCount ==
    (ilast.op = "recorded" /\ run.pc = "save_open"
        /\ run.chunk_index = NumChunks(msgs[ilast.file]))
        => LET f == ilast.file
           IN  /\ state[f].chunks = NumChunks(msgs[f])
               /\ {pt[2] : pt \in {q \in points : q[1] = f}}
                     = 0..(state[f].chunks - 1)

\* C20: when the importer has streamed an empty transcript, no point is
\* stored for it and the state dict records it with chunks = 0, so the next
\* check of the unchanged file passes it over.
C20_EmptyTranscriptRecorded ==
    (ilast.op = "unrecorded" /\ msgs[ilast.file] = 0)
        => LET f == ilast.file
           IN  /\ {pt \in points : pt[1] = f} = {}
               /\ f \in DOMAIN state
               /\ state[f].chunks = 0
               /\ ~should_import_file(f, state, mtime[f])

MAX_TOKENS_PER_BATCH == 100000
TOKEN_ESTIMATION_RATIO == 3

\* chunks of one call and messages of one chunk
MaxChunks == 2
MaxMessages == 2

\* message lengths the tests use: a short message, the 150,000-character
\* messages of the oversized chunk, the 250,000-character chunk near the limit
TextLengths == {15000, 150000, 250000}

CeilDiv(a, b) == (a + b - 1) \div b

\* est(t) = ceil(len(t) / R) * 1.1, with a 30% uplift for JSON-like text
estimate_tokens(len, json) ==
    LET base == CeilDiv(CeilDiv(len, TOKEN_ESTIMATION_RATIO) * 11, 10)
    IN  IF json THEN CeilDiv(base * 13, 10) ELSE base

RECURSIVE SumSeq(_)
SumSeq(q) == IF q = << >> THEN 0 ELSE Head(q) + SumSeq(Tail(q))

\* the estimate of a chunk's text, the concatenation of its messages
ChunkTokens(c) == estimate_tokens(SumSeq(c.messages), c.json)

RECURSIVE SplitMessages(_, _, _)
SplitMessages(ms, cur, json) ==
    IF ms = << >>
    THEN IF cur = << >> THEN << >> ELSE <<[messages |-> cur, json |-> json]>>
    ELSE IF cur # << >>
            /\ estimate_tokens(SumSeq(cur) + Head(ms), json) > MAX_TOKENS_PER_BATCH
         THEN <<[messages |-> cur, json |-> json]>>
                  \o SplitMessages(Tail(ms), <<Head(ms)>>, json)
         ELSE SplitMessages(Tail(ms), Append(cur, Head(ms)), json)

\* a chunk whose estimate exceeds the limit is split into sub-chunks along
\* message boundaries; any other chunk is kept whole
split_large_chunk(c) ==
    IF ChunkTokens(c) <= MAX_TOKENS_PER_BATCH
    THEN <<c>>
    ELSE SplitMessages(c.messages, << >>, c.json)

RECURSIVE SplitAll(_)
SplitAll(cs) ==
    IF cs = << >> THEN << >> ELSE split_large_chunk(Head(cs)) \o SplitAll(Tail(cs))

RECURSIVE BatchTokens(_)
BatchTokens(b) == IF b = << >> THEN 0 ELSE ChunkTokens(Head(b)) + BatchTokens(Tail(b))

\* a new batch is started when adding the next chunk would exceed the limit
RECURSIVE FillBatches(_, _)
FillBatches(cs, cur) ==
    IF cs = << >>
    THEN IF cur = << >> THEN << >> ELSE <<cur>>
    ELSE IF cur # << >>
            /\ BatchTokens(cur) + ChunkTokens(Head(cs)) > MAX_TOKENS_PER_BATCH
         THEN <<cur>> \o FillBatches(Tail(cs), <<Head(cs)>>)
         ELSE FillBatches(Tail(cs), Append(cur, Head(cs)))

\* the batching before it was token-aware: every chunk in one request
create_single_batch(cs) == IF cs = << >> THEN << >> ELSE <<SplitAll(cs)>>

create_token_aware_batches(cs) == FillBatches(SplitAll(cs), << >>)

SeqsUpTo(S, n) == UNION {[1..k -> S] : k \in 0..n}

\* the chunks a call can be given: every message by itself is within the
\* limit (message boundaries are the only places a chunk is split at)
ChunkChoices ==
    {c \in [messages : SeqsUpTo(TextLengths, MaxMessages) \ {<< >>}, json : BOOLEAN] :
        \A k \in DOMAIN c.messages :
            estimate_tokens(c.messages[k], c.json) <= MAX_TOKENS_PER_BATCH}

\* simulate_issue_38: ten chunks of one message, "Message i: " and 15,000 to
\* 60,000 characters, about 124,000 estimated tokens together
Issue38Lengths ==
    <<15011, 18011, 20011, 25011, 30011, 35011, 40011, 45011, 50011, 60011>>
Issue38Chunks ==
    [k \in DOMAIN Issue38Lengths |-> [messages |-> <<Issue38Lengths[k]>>, json |-> FALSE]]

BatchingInit ==
    /\ bf = InitialBackfillState
    /\ req = [i \in Reqs |-> NewReq]
    /\ task = [i \in Reqs |-> NoTask]
    /\ remote = << >>
    /\ hist = [i \in Reqs |-> NoHist]
    /\ faults = 0
    /\ mtime = [f \in Files |-> 1]
    /\ msgs = [f \in Files |-> 0]
    /\ sfile = Missing
    /\ tmpfile = Missing
    /\ points = {}
    /\ state = EmptyDoc
    /\ run = NotRunning
    /\ ilast = NoStep
    /\ ifailed = [f \in Files |-> FALSE]
    /\ collection = 0
    /\ sent = {}
    /\ ufile = Missing
    /\ exists = [p \in Paths |-> TRUE]
    /\ worker = WorkerIdle
    /\ cleaner = CleanerIdle
    /\ narratives = {}
    /\ nfailed = {}
    /\ jobs = << >>
    /\ dash = << >>
    /\ jlast = NoOp
    /\ selected = NoSelection
    /\ pollers = << >>
    /\ fnpc = "chunks"
    /\ chunk_list \in SeqsUpTo(ChunkChoices, MaxChunks) \cup {Issue38Chunks}
    /\ batches = << >>
    /\ project_path = << >>
    /\ project_name = << >>
    /\ arg = << >>
    /\ ret = << >>
    /\ scan = NoScan

CreateBatches ==
    /\ fnpc = "chunks"
    /\ batches' = create_token_aware_batches(chunk_list)
    /\ fnpc' = "batched"
    /\ UNCHANGED <<chunk_list, project_path, project_name, arg, ret>>
    /\ UNCHANGED scanvars
    /\ UNCHANGED bfvars
    /\ UNCHANGED ingvars
    /\ UNCHANGED narvars
    /\ UNCHANGED jobvars

BatchingNext == CreateBatches

SpecBatching == BatchingInit /\ [][BatchingNext]_vars

RECURSIVE Flatten(_)
Flatten(bs) == IF bs = << >> THEN << >> ELSE Head(bs) \o Flatten(Tail(bs))

RECURSIVE AllMessages(_)
AllMessages(cs) ==
    IF cs = << >> THEN << >> ELSE Head(cs).messages \o AllMessages(Tail(cs))

MaxPathLen == 6

Pieces == {"/", "-", "projects", "x"}

\* the arguments of test_normalization_consistency and test_edge_cases
DashEncoded ==
    <<"-", "Users", "-", "name", "-", "projects", "-", "claude", "-", "self",
      "-", "reflect">>
ClaudeDirPrefix ==
    <<"/", "Users", "/", "name", "/", ".claude", "/", "projects", "/">>
LogsPrefix == <<"/", "logs", "/">>
BareName == <<"claude", "-", "self", "-", "reflect">>
ConsistencyInputs ==
    {DashEncoded, ClaudeDirPrefix \o DashEncoded, LogsPrefix \o DashEncoded, BareName}
TwoProjectsTokens ==
    <<"-", "Users", "-", "projects", "-", "manager", "-", "projects", "-", "test">>
NoProjectsToken == <<"-", "Users", "-", "name", "-", "work", "-", "myapp">>
ProjectsProjects ==
    <<"-", "Users", "-", "name", "-", "projects", "-", "projects", "-", "test">>
EdgeCases ==
    {TwoProjectsTokens, NoProjectsToken, << >>, <<"projects">>, ProjectsProjects}

\* project_path.split('/')[-1] when '/' in project_path, else project_path
final_component(path) ==
    LET slashes == {i \in DOMAIN path : path[i] = "/"}
    IN  IF slashes = {} THEN path
        ELSE SubSeq(path, (CHOOSE i \in slashes : \A j \in slashes : j <= i) + 1,
                    Len(path))

\* the places where 'projects-' starts in str
Occurrences(str) ==
    {i \in DOMAIN str : str[i] = "projects" /\ i < Len(str) /\ str[i + 1] = "-"}

\* str.rfind('projects-'): the last such place, 0 for Python's -1
rfind(str) ==
    IF Occurrences(str) = {} THEN 0
    ELSE CHOOSE i \in Occurrences(str) : \A j \in Occurrences(str) : j <= i

\* str.find('projects-'): the first such place, 0 for Python's -1
find(str) ==
    IF Occurrences(str) = {} THEN 0
    ELSE CHOOSE i \in Occurrences(str) : \A j \in Occurrences(str) : i <= j

startswith_dash(str) == str # << >> /\ str[1] = "-"
contains_projects(str) == \E i \in DOMAIN str : str[i] = "projects"

\* normalize_project_name cutting after the first 'projects-' instead of
\* the last
normalize_after_first(path) ==
    LET fc == final_component(path)
    IN  IF startswith_dash(fc) /\ contains_projects(fc) /\ find(fc) # 0
        THEN SubSeq(fc, find(fc) + 2, Len(fc))
        ELSE fc

normalize_project_name(path) ==
    LET fc == final_component(path)
    IN  IF startswith_dash(fc) /\ contains_projects(fc) /\ rfind(fc) # 0
        THEN SubSeq(fc, rfind(fc) + 2, Len(fc))
        ELSE fc

NormalizeInit ==
    /\ bf = InitialBackfillState
    /\ req = [i \in Reqs |-> NewReq]
    /\ task = [i \in Reqs |-> NoTask]
    /\ remote = << >>
    /\ hist = [i \in Reqs |-> NoHist]
    /\ faults = 0
    /\ mtime = [f \in Files |-> 1]
    /\ msgs = [f \in Files |-> 0]
    /\ sfile = Missing
    /\ tmpfile = Missing
    /\ points = {}
    /\ state = EmptyDoc
    /\ run = NotRunning
    /\ ilast = NoStep
    /\ ifailed = [f \in Files |-> FALSE]
    /\ collection = 0
    /\ sent = {}
    /\ ufile = Missing
    /\ exists = [p \in Paths |-> TRUE]
    /\ worker = WorkerIdle
    /\ cleaner = CleanerIdle
    /\ narratives = {}
    /\ nfailed = {}
    /\ jobs = << >>
    /\ dash = << >>
    /\ jlast = NoOp
    /\ selected = NoSelection
    /\ pollers = << >>
    /\ fnpc = "path"
    /\ chunk_list = << >>
    /\ batches = << >>
    /\ project_path \in SeqsUpTo(Pieces, MaxPathLen) \cup ConsistencyInputs \cup EdgeCases
    /\ project_name = << >>
    /\ arg = << >>
    /\ ret = << >>
    /\ scan = NoScan

Normalize ==
    /\ fnpc = "path"
    /\ project_name' = normalize_project_name(project_path)
    /\ fnpc' = "normalized"
    /\ UNCHANGED <<chunk_list, batches, project_path, arg, ret>>
    /\ UNCHANGED scanvars
    /\ UNCHANGED bfvars
    /\ UNCHANGED ingvars
    /\ UNCHANGED narvars
    /\ UNCHANGED jobvars

NormalizeNext == Normalize

SpecNormalize == NormalizeInit /\ [][NormalizeNext]_vars

\* C23: normalizing a normalized name gives that name again.
C23_NormalizeIdempotent ==
    fnpc = "normalized" => normalize_project_name(project_name) = project_name

\* a dash-encoded name with two 'projects-' in it was cut after the last
C23_Witness ==
    /\ fnpc = "normalized"
    /\ Cardinality(Occurrences(final_component(project_path))) > 1
    /\ startswith_dash(project_path)
    /\ project_name # final_component(project_path)

\* C24: the result is that of the trailing path element alone, whatever
\* directories precede it; the dash-encoded name, the full paths ending in
\* it and the bare name give the same project name; a trailing element
\* that does not start with '-' or has no 'projects-' in it is returned as
\* it is; and '-Users-name-projects-projects-test' gives 'projects-test'.
C24_TrailingElementDecides ==
    fnpc = "normalized" =>
        /\ \A prefix \in {ClaudeDirPrefix, LogsPrefix} :
               normalize_project_name(prefix \o final_component(project_path))
                   = project_name
        /\ project_path \in ConsistencyInputs => project_name = BareName
        /\ (~startswith_dash(final_component(project_path))
               \/ Occurrences(final_component(project_path)) = {})
             => project_name = final_component(project_path)
        /\ project_path = ProjectsProjects
             => project_name = <<"projects", "-", "test">>

(***************************************************************************)
(* Claims about the polling of a batch                                     *)
(***************************************************************************)
\* C25: when the polling of a batch has used up its waiting time without
\* seeing a terminal status, the polling has stopped and the batch's local
\* status is failed.
C25_TimedOutBatchFailed ==
    \A b \in DOMAIN pollers :
        (jlast.op = "gave_up" /\ jlast.batch = b)
            => (pollers[b].pc = "exhausted" /\ jobs[b].status = "failed")

C28_IdleStartSucceeds ==
    [][\A i \in Reqs :
         (req[i].pc = "fetching" /\ req'[i].pc = "done"
             /\ req'[i].response # "no_pending")
            => /\ req'[i].response = "started"
               /\ task'[i].pc = "scheduled"
               /\ task'[i].nconv \in 1..(req[i].batch_size * req[i].max_batches)
               /\ task'[i].max_batches =
                     Min(req[i].max_batches,
                         (task'[i].nconv + req[i].batch_size - 1) \div req[i].batch_size)
               /\ bf' = ResetBackfillState(task'[i].max_batches)
               /\ bf'.running /\ bf'.batches_submitted = 0
               /\ bf'.batches_completed = 0 /\ bf'.errors = 0
               /\ \A j \in Reqs \ {i} : task'[j] = task[j]]_vars

C30_NoLostUpdate ==
    [][(ufile.kind = "doc" /\ ufile'.kind = "torn")
          => LET written == IF worker.pc = "mark_open" /\ worker'.pc = "mark_write"
                            THEN worker.doc ELSE cleaner.doc
             IN  /\ \A p \in DOMAIN ufile.doc :
                       (ufile.doc[p].has_narrative = "true" /\ exists[p])
                          => /\ p \in DOMAIN written
                             /\ written[p].has_narrative = "true"
                 /\ \A p \in DOMAIN written :
                       ~exists[p] => p \in DOMAIN ufile.doc]_vars

(***************************************************************************)
(* Claims about concurrent pollers of one batch                            *)
(***************************************************************************)
\* C31: once the state file of a batch holds status completed or failed, no
\* later write gives it another status, whichever of the pollers (the poll
\* task, a refresh) makes the write.
C31_TerminalStatusKept ==
    [][\A b \in DOMAIN jobs :
         jobs[b].status \in {"completed", "failed"}
            => jobs'[b].status \in {"completed", "failed"}]_vars

(***************************************************************************)
(* The importer's scan cycles over several project directories.  main()    *)
(* is run again and again by its scheduler; one run is one scan cycle.     *)
(* A file is handled in one step here: should_import_file, the stream,     *)
(* update_file_state and save_state; every stream of a transcript with     *)
(* messages succeeds.                                                      *)
(***************************************************************************)
\* the project directories under the root
NumProjects == 2
Projects == 1..NumProjects
\* the values MAX_FILES_PER_CYCLE is set to in the environment, besides the
\* default
MaxFilesEnv == 2

\* project_dir.glob("*.jsonl") of one project directory
glob(dir, p) == {f \in Files : dir[f] = p}

ScanInit ==
    /\ bf = InitialBackfillState
    /\ req = [i \in Reqs |-> NewReq]
    /\ task = [i \in Reqs |-> NoTask]
    /\ remote = << >>
    /\ hist = [i \in Reqs |-> NoHist]
    /\ faults = 0
    /\ mtime = [f \in Files |-> 1]
    /\ msgs \in [Files -> 0..MaxMsgs]
    /\ sfile = Missing
    /\ tmpfile = Missing
    /\ points = {}
    /\ state = EmptyDoc
    /\ run = NotRunning
    /\ ilast = NoStep
    /\ ifailed = [f \in Files |-> FALSE]
    /\ collection = 0
    /\ sent = {}
    /\ ufile = Missing
    /\ exists = [p \in Paths |-> TRUE]
    /\ worker = WorkerIdle
    /\ cleaner = CleanerIdle
    /\ narratives = {}
    /\ nfailed = {}
    /\ jobs = << >>
    /\ dash = << >>
    /\ jlast = NoOp
    /\ selected = NoSelection
    /\ pollers = << >>
    /\ fnpc = "none"
    /\ chunk_list = << >>
    /\ batches = << >>
    /\ project_path = << >>
    /\ project_name = << >>
    /\ arg = << >>
    /\ ret = << >>
    /\ \E m \in (1..MaxFilesEnv) \cup {MAX_FILES_PER_CYCLE},
          d \in [Files -> Projects] :
          scan = [NoScan EXCEPT !.max_files = m, !.project_dir = d]

\* main starts: load_state, the list of project directories
ScanBegin ==
    /\ scan.pc = "idle"
    /\ state' = load_state(sfile)
    /\ scan' = [scan EXCEPT !.pc = "project", !.projects = SortedFiles(Projects),
                            !.queue = << >>, !.total_imported = 0]
    /\ UNCHANGED <<mtime, msgs, sfile, tmpfile, points, run, ilast, ifailed,
                   collection, sent>>
    /\ UNCHANGED fnvars
    /\ UNCHANGED bfvars
    /\ UNCHANGED narvars
    /\ UNCHANGED jobvars

\* top of `for project_dir in project_dirs`: the sorted transcripts of the
\* directory, cut to the first max_files
ProjectBegin ==
    /\ scan.pc = "project" /\ scan.projects # << >>
    /\ LET all == SortedFiles(glob(scan.project_dir, Head(scan.projects)))
       IN  scan' = [scan EXCEPT !.pc = "files", !.projects = Tail(@),
                       !.queue = SubSeq(all, 1, Min(Len(all), scan.max_files))]
    /\ UNCHANGED ingvars
    /\ UNCHANGED fnvars
    /\ UNCHANGED bfvars
    /\ UNCHANGED narvars
    /\ UNCHANGED jobvars

\* one round of `for jsonl_file in jsonl_files`: a file should_import_file
\* accepts is streamed, and recorded and saved when it gave chunks
ScanFile ==
    /\ scan.pc = "files" /\ scan.queue # << >>
    /\ LET f == Head(scan.queue)
           chunks == NumChunks(msgs[f])
       IN  IF should_import_file(f, state, mtime[f]) /\ chunks > 0
           THEN /\ state' = update_file_state(f, state, chunks, mtime[f])
                /\ sfile' = Complete(state')
                /\ scan' = [scan EXCEPT !.queue = Tail(@), !.total_imported = @ + 1]
           ELSE /\ scan' = [scan EXCEPT !.queue = Tail(@)]
                /\ UNCHANGED <<state, sfile>>
    /\ UNCHANGED <<mtime, msgs, tmpfile, points, run, ilast, ifailed,
                   collection, sent>>
    /\ UNCHANGED fnvars
    /\ UNCHANGED bfvars
    /\ UNCHANGED narvars
    /\ UNCHANGED jobvars

\* the file list of the project is exhausted
ProjectEnd ==
    /\ scan.pc = "files" /\ scan.queue = << >>
    /\ scan' = [scan EXCEPT !.pc = "project"]
    /\ UNCHANGED ingvars
    /\ UNCHANGED fnvars
    /\ UNCHANGED bfvars
    /\ UNCHANGED narvars
    /\ UNCHANGED jobvars

\* the project list is exhausted: main logs total_imported and returns
ScanEnd ==
    /\ scan.pc = "project" /\ scan.projects = << >>
    /\ scan' = [scan EXCEPT !.pc = "idle"]
    /\ state' = EmptyDoc
    /\ UNCHANGED <<mtime, msgs, sfile, tmpfile, points, run, ilast, ifailed,
                   collection, sent>>
    /\ UNCHANGED fnvars
    /\ UNCHANGED bfvars
    /\ UNCHANGED narvars
    /\ UNCHANGED jobvars

\* a step of the importer
ScanStep == ScanBegin \/ ProjectBegin \/ ScanFile \/ ProjectEnd \/ ScanEnd

ScanNext ==
    \/ ScanBegin
    \/ ProjectBegin
    \/ ScanFile
    \/ ProjectEnd
    \/ ScanEnd
    \/ \E f \in Files, n \in 0..MaxMsgs : Touch(f, n)

\* the scheduler starts a cycle whenever none runs, and a running cycle
\* goes on; nothing is assumed of the owners of the transcripts
SpecScan == ScanInit /\ [][ScanNext]_vars /\ WF_vars(ScanStep)

\* C32: a transcript that has messages, whatever its place in its project
\* directory, gets its entry in the state file after finitely many cycles.
C32_EveryFileRecorded ==
    \A f \in Files : (msgs[f] > 0) ~> (f \in DOMAIN load_state(sfile))

\* C34: the files ingested in one scan cycle, over all projects, number at
\* most MAX_FILES_PER_CYCLE.
C34_CycleCap == scan.total_imported <= scan.max_files

(***************************************************************************)
(* Claims about failures of a chunk in the streaming importer              *)
(***************************************************************************)
\* C35: when embedding or upserting a chunk fails, the same chunk is tried
\* again: the stream does not move on to the next chunk after one failed
\* attempt (the importer counts no attempts, so the fifth is never reached).
C35_FailedChunkRetried ==
    [][(run.pc = "stream" /\ ilast'.op = "chunk_failed")
          => (run'.pc = "stream" /\ run'.cur = run.cur
                /\ run'.chunk_index = run.chunk_index
                /\ run'.remaining = run.remaining)]_vars

(***************************************************************************)
(* stream_import_file as a function of the transcript's lines.  A text is  *)
(* the sequence of its pieces.  A line is a JSON record or not JSON at     *)
(* all; a record has a type, and a message (role "none": no message) whose *)
(* content is a string or a list of typed parts.  The value of the         *)
(* function is the sequence of chunks handed to process_and_upload_chunk.  *)
(***************************************************************************)
\* lines of a transcript
MaxLines == 4

StrContent(t) == [is_list |-> FALSE, str |-> t, list |-> << >>]
ListContent(items) == [is_list |-> TRUE, str |-> << >>, list |-> items]
TextPart(t) == [type |-> "text", text |-> t]
ToolUsePart == [type |-> "tool_use", text |-> << >>]
Record(type, role, content) ==
    [json |-> TRUE, type |-> type, role |-> role, content |-> content]
InvalidJson == [json |-> FALSE, type |-> "none", role |-> "none",
                content |-> StrContent(<< >>)]

Lines ==
    { Record("user", "user", StrContent(<<"a">>)),
      Record("assistant", "assistant", StrContent(<<"b">>)),
      Record("assistant", "assistant",
             ListContent(<<TextPart(<<"c">>), ToolUsePart, TextPart(<<"d">>)>>)),
      Record("assistant", "assistant", ListContent(<<ToolUsePart>>)),
      Record("summary", "user", StrContent(<<"e">>)),
      Record("system", "system", StrContent(<<"f">>)),
      Record("file-history-snapshot", "none", StrContent(<< >>)),
      InvalidJson }

\* text_parts of a list content: the text of every part of type text
RECURSIVE text_parts(_)
text_parts(items) ==
    IF items = << >> THEN << >>
    ELSE IF Head(items).type = "text"
         THEN <<Head(items).text>> \o text_parts(Tail(items))
         ELSE text_parts(Tail(items))

\* '\n'.join(text_parts)
RECURSIVE join(_)
join(texts) ==
    IF texts = << >> THEN << >>
    ELSE IF Len(texts) = 1 THEN Head(texts)
         ELSE Head(texts) \o <<"\n">> \o join(Tail(texts))

\* the content stream_import_file puts into the buffer for a message
extract_content(content) ==
    IF content.is_list THEN join(text_parts(content.list)) ELSE content.str

\* whether the line gives a message: valid JSON, not a summary, a message
\* with a role and a content that is not empty after extraction
GivesMessage(line) ==
    /\ line.json
    /\ line.type # "summary"
    /\ line.role # "none"
    /\ extract_content(line.content) # << >>

\* the loop over the lines: the buffer, the chunks given out so far and
\* current_message_index
RECURSIVE stream_lines(_, _, _, _)
stream_lines(lines, chunk_buffer, out, current_message_index) ==
    IF lines = << >>
    THEN [chunk_buffer |-> chunk_buffer, out |-> out]
    ELSE LET line == Head(lines)
             counted == line.role \in {"user", "assistant"}
             idx == IF counted THEN current_message_index + 1
                    ELSE current_message_index
             msg == [role |-> line.role,
                     content |-> extract_content(line.content),
                     message_index |-> IF counted THEN idx ELSE 0]
             buffer == Append(chunk_buffer, msg)
         IN  IF ~GivesMessage(line)
             THEN stream_lines(Tail(lines), chunk_buffer, out,
                               current_message_index)
             ELSE IF Len(buffer) >= MAX_CHUNK_SIZE
                  THEN stream_lines(Tail(lines), << >>,
                          Append(out, [chunk_index |-> Len(out),
                                       messages |-> buffer]), idx)
                  ELSE stream_lines(Tail(lines), buffer, out, idx)

\* stream_import_file without the chunk of the remaining messages
stream_full_chunks(lines) == stream_lines(lines, << >>, << >>, 0).out

\* the chunks stream_import_file hands to process_and_upload_chunk
stream_import_file(lines) ==
    LET end == stream_lines(lines, << >>, << >>, 0)
    IN  IF end.chunk_buffer # << >>
        THEN Append(end.out, [chunk_index |-> Len(end.out),
                              messages |-> end.chunk_buffer])
        ELSE end.out

StreamInit ==
    /\ bf = InitialBackfillState
    /\ req = [i \in Reqs |-> NewReq]
    /\ task = [i \in Reqs |-> NoTask]
    /\ remote = << >>
    /\ hist = [i \in Reqs |-> NoHist]
    /\ faults = 0
    /\ mtime = [f \in Files |-> 1]
    /\ msgs = [f \in Files |-> 0]
    /\ sfile = Missing
    /\ tmpfile = Missing
    /\ points = {}
    /\ state = EmptyDoc
    /\ run = NotRunning
    /\ ilast = NoStep
    /\ ifailed = [f \in Files |-> FALSE]
    /\ collection = 0
    /\ sent = {}
    /\ ufile = Missing
    /\ exists = [p \in Paths |-> TRUE]
    /\ worker = WorkerIdle
    /\ cleaner = CleanerIdle
    /\ narratives = {}
    /\ nfailed = {}
    /\ jobs = << >>
    /\ dash = << >>
    /\ jlast = NoOp
    /\ selected = NoSelection
    /\ pollers = << >>
    /\ fnpc = "transcript"
    /\ chunk_list = << >>
    /\ batches = << >>
    /\ project_path = << >>
    /\ project_name = << >>
    /\ arg \in SeqsUpTo(Lines, MaxLines)
    /\ ret = << >>
    /\ scan = NoScan

StreamImport ==
    /\ fnpc = "transcript"
    /\ ret' = stream_import_file(arg)
    /\ fnpc' = "streamed"
    /\ UNCHANGED <<chunk_list, batches, project_path, project_name, arg>>
    /\ UNCHANGED scanvars
    /\ UNCHANGED bfvars
    /\ UNCHANGED ingvars
    /\ UNCHANGED narvars
    /\ UNCHANGED jobvars

StreamNext == StreamImport

SpecStream == StreamInit /\ [][StreamNext]_vars

\* the messages of the chunks, in chunk_index order
RECURSIVE ChunkMessages(_)
ChunkMessages(chunks) ==
    IF chunks = << >> THEN << >>
    ELSE Head(chunks).messages \o ChunkMessages(Tail(chunks))

Contents(messages) == [k \in DOMAIN messages |-> messages[k].content]
IsConversational(m) == m.role \in {"user", "assistant"}

\* walking the file once: the text of every message line of the given roles
RECURSIVE Walk(_, _)
Walk(lines, roles) ==
    IF lines = << >> THEN << >>
    ELSE IF GivesMessage(Head(lines)) /\ Head(lines).role \in roles
         THEN <<extract_content(Head(lines).content)>> \o Walk(Tail(lines), roles)
         ELSE Walk(Tail(lines), roles)

\* C36 as stated: the messages of the chunks, in order, are exactly the
\* user and assistant message contents of the file.
C36_ChunksAreConversation ==
    fnpc = "streamed"
       => Contents(ChunkMessages(ret)) = Walk(arg, {"user", "assistant"})

\* C36 (amended): the user and assistant messages of the chunks, in order,
\* are exactly the user and assistant message texts of the file; the chunks
\* hold besides them only the messages of other roles, with message_index
\* 0, each in its place in file order; chunk_index counts the chunks from 0
\* and lines of type summary give nothing.
C36_ConversationInChunks ==
    fnpc = "streamed"
       => /\ Contents(SelectSeq(ChunkMessages(ret), IsConversational))
                = Walk(arg, {"user", "assistant"})
          /\ Contents(ChunkMessages(ret)) = Walk(arg, {"user", "assistant", "system"})
          /\ \A k \in DOMAIN ret :
                /\ ret[k].chunk_index = k - 1
                /\ ret[k].messages # << >>
                /\ Len(ret[k].messages) <= MAX_CHUNK_SIZE
          /\ \A k \in DOMAIN ChunkMessages(ret) :
                LET m == ChunkMessages(ret)[k]
                IN  IsConversational(m) <=> m.message_index > 0

\* a transcript of several chunks with a summary, a system message and a
\* message without text among its lines has been streamed
C36_Witness ==
    /\ fnpc = "streamed"
    /\ Len(ret) >= 2
    /\ \E k \in DOMAIN arg : arg[k].type = "summary"
    /\ \E k \in DOMAIN arg : arg[k].role = "system"
    /\ Len(ret[Len(ret)].messages) < MAX_CHUNK_SIZE

(***************************************************************************)
(* Claims about the submission of a batch                                  *)
(***************************************************************************)
\* C37: the conversations a job's state file lists are exactly the
\* conversations of the requests in the batch file the remote batch was
\* created from, one request for each.
C37_StateDescribesRequests ==
    \A b \in DOMAIN jobs : jobs[b].conversations = dash[b].requests

(***************************************************************************)
(* Claims about a failed save of the orphan cleanup                        *)
(***************************************************************************)
\* C38: when the cleanup cannot save the reduced document, it returns
\* (entries read, 0) without raising, and the state file is a complete
\* document that still holds every entry the cleanup read.
C38_FailedSaveKeepsFile ==
    [][(CleanupOpenFails \/ CleanupWriteFails)
          => /\ cleaner'.pc = "returned"
             /\ cleaner'.removed = 0
             /\ ufile'.kind = "doc"
             /\ Cardinality(DOMAIN ufile'.doc) = cleaner.checked]_vars

(***************************************************************************)
(* QwenEmbeddingProvider.generate_embeddings as a function of its list of  *)
(* texts.  A text is the sequence of its characters.  The value is the     *)
(* sequence of embeddings.create requests made (each the list of its       *)
(* inputs) and the list of vectors returned; a vector is named by what it  *)
(* was computed from.                                                      *)
(***************************************************************************)
\* texts of a call, and characters of a text
MaxTexts == 3
MaxTextLen == 3
\* self.max_chars = 6000 and BATCH_SIZE = 10 of the provider, scaled down
max_chars == 2
QWEN_BATCH_SIZE == 2

Chars == {"x", "!", " "}
Texts == SeqsUpTo(Chars, MaxTextLen)

\* text.replace('!', '.').replace('?', '.')
replace(text) ==
    [k \in DOMAIN text |-> IF text[k] \in {"!", "?"} THEN "." ELSE text[k]]

\* str.split('.'): the pieces between the dots, empty pieces included
RECURSIVE split(_, _)
split(text, piece) ==
    IF text = << >> THEN <<piece>>
    ELSE IF Head(text) = "."
         THEN <<piece>> \o split(Tail(text), << >>)
         ELSE split(Tail(text), Append(piece, Head(text)))

\* str.strip()
RECURSIVE lstrip(_)
lstrip(text) ==
    IF text # << >> /\ Head(text) = " " THEN lstrip(Tail(text)) ELSE text
RECURSIVE rstrip(_)
rstrip(text) ==
    IF text # << >> /\ text[Len(text)] = " "
    THEN rstrip(SubSeq(text, 1, Len(text) - 1)) ELSE text
strip(text) == rstrip(lstrip(text))

\* the loop of _chunk_text over the sentences
RECURSIVE chunk_sentences(_, _, _)
chunk_sentences(sentences, chunks, current_chunk) ==
    IF sentences = << >>
    THEN IF current_chunk # << >> THEN Append(chunks, strip(current_chunk))
         ELSE chunks
    ELSE LET sentence == strip(Head(sentences))
         IN  IF sentence = << >>
             THEN chunk_sentences(Tail(sentences), chunks, current_chunk)
             ELSE IF Len(current_chunk) + Len(sentence) + 2 > max_chars
                  THEN chunk_sentences(Tail(sentences),
                          IF current_chunk # << >>
                          THEN Append(chunks, strip(current_chunk)) ELSE chunks,
                          sentence \o <<".">>)
                  ELSE chunk_sentences(Tail(sentences), chunks,
                          current_chunk \o sentence \o <<".">>)

\* QwenEmbeddingProvider._chunk_text
chunk_text(text) ==
    IF Len(text) <= max_chars THEN <<text>>
    ELSE LET chunks == chunk_sentences(split(replace(text), << >>), << >>, << >>)
         IN  IF chunks # << >> THEN chunks
             ELSE <<SubSeq(text, 1, max_chars)>>

\* the vectors: [0.0] * dimension, the mean of the vectors of the chunks,
\* and the vector the service returned for one input
Zeros == [kind |-> "zeros", of |-> << >>]
Mean(chunks) == [kind |-> "mean", of |-> chunks]
Embedding(text) == [kind |-> "embedding", of |-> <<text>>]

\* `not text or not text.strip()`
IsBlank(text) == strip(text) = << >>

\* the texts of a batch that wait for the batch request: neither blank nor
\* split into several chunks
IsSingle(text) == ~IsBlank(text) /\ Len(chunk_text(text)) = 1

\* the requests made for one batch of texts: one per chunk of every text
\* that was split, then one for the texts that were not
RECURSIVE chunk_requests(_)
chunk_requests(batch_texts) ==
    IF batch_texts = << >> THEN << >>
    ELSE LET text == Head(batch_texts)
             chunks == chunk_text(text)
         IN  (IF ~IsBlank(text) /\ Len(chunks) > 1
              THEN [k \in DOMAIN chunks |-> <<chunks[k]>>]
              ELSE << >>) \o chunk_requests(Tail(batch_texts))

batch_requests(batch_texts) ==
    LET single_chunk_texts == SelectSeq(batch_texts, IsSingle)
    IN  chunk_requests(batch_texts)
           \o (IF single_chunk_texts # << >> THEN <<single_chunk_texts>> ELSE << >>)

\* batch_results after the placeholders were replaced
batch_results(batch_texts) ==
    [k \in DOMAIN batch_texts |->
        IF IsBlank(batch_texts[k]) THEN Zeros
        ELSE IF Len(chunk_text(batch_texts[k])) > 1
             THEN Mean(chunk_text(batch_texts[k]))
             ELSE Embedding(batch_texts[k])]

\* QwenEmbeddingProvider.generate_embeddings
RECURSIVE generate_embeddings(_)
generate_embeddings(texts) ==
    IF texts = << >> THEN [requests |-> << >>, embeddings |-> << >>]
    ELSE LET n == Min(QWEN_BATCH_SIZE, Len(texts))
             batch_texts == SubSeq(texts, 1, n)
             rest == generate_embeddings(SubSeq(texts, n + 1, Len(texts)))
         IN  [requests |-> batch_requests(batch_texts) \o rest.requests,
              embeddings |-> batch_results(batch_texts) \o rest.embeddings]

QwenInit ==
    /\ bf = InitialBackfillState
    /\ req = [i \in Reqs |-> NewReq]
    /\ task = [i \in Reqs |-> NoTask]
    /\ remote = << >>
    /\ hist = [i \in Reqs |-> NoHist]
    /\ faults = 0
    /\ mtime = [f \in Files |-> 1]
    /\ msgs = [f \in Files |-> 0]
    /\ sfile = Missing
    /\ tmpfile = Missing
    /\ points = {}
    /\ state = EmptyDoc
    /\ run = NotRunning
    /\ ilast = NoStep
    /\ ifailed = [f \in Files |-> FALSE]
    /\ collection = 0
    /\ sent = {}
    /\ ufile = Missing
    /\ exists = [p \in Paths |-> TRUE]
    /\ worker = WorkerIdle
    /\ cleaner = CleanerIdle
    /\ narratives = {}
    /\ nfailed = {}
    /\ jobs = << >>
    /\ dash = << >>
    /\ jlast = NoOp
    /\ selected = NoSelection
    /\ pollers = << >>
    /\ fnpc = "texts"
    /\ chunk_list = << >>
    /\ batches = << >>
    /\ project_path = << >>
    /\ project_name = << >>
    /\ arg \in SeqsUpTo(Texts, MaxTexts)
    /\ ret = << >>
    /\ scan = NoScan

GenerateEmbeddings ==
    /\ fnpc = "texts"
    /\ ret' = generate_embeddings(arg)
    /\ fnpc' = "embedded"
    /\ UNCHANGED <<chunk_list, batches, project_path, project_name, arg>>
    /\ UNCHANGED scanvars
    /\ UNCHANGED bfvars
    /\ UNCHANGED ingvars
    /\ UNCHANGED narvars
    /\ UNCHANGED jobvars

QwenNext == GenerateEmbeddings

SpecQwen == QwenInit /\ [][QwenNext]_vars

\* C39: every request carries at most QWEN_BATCH_SIZE texts, each of at most
\* max_chars characters, and the call returns one vector for each input
\* text, in input order.
C39_RequestLimitsKept ==
    fnpc = "embedded"
       => /\ \A r \in DOMAIN ret.requests :
                /\ Len(ret.requests[r]) <= QWEN_BATCH_SIZE
                /\ \A k \in DOMAIN ret.requests[r] :
                      Len(ret.requests[r][k]) <= max_chars
          /\ Len(ret.embeddings) = Len(arg)
          /\ \A k \in DOMAIN arg :
                \/ ret.embeddings[k] = Zeros /\ IsBlank(arg[k])
                \/ ret.embeddings[k] = Embedding(arg[k])
                \/ ret.embeddings[k] = Mean(chunk_text(arg[k]))

(***************************************************************************)
(* extract_metadata_single_pass as a function of the tool_use items of the *)
(* transcript, in file order.  An item has the tool's name and an input    *)
(* with a file_path, a path, both or neither ("none").                     *)
(***************************************************************************)
\* tool_use items of a transcript
MaxToolUses == 3
\* metadata['files_analyzed'][:20] and metadata['files_edited'][:20], the
\* caps scaled down
MaxFileRefs == 2

FileRefs == {"a", "b", "c"}
EditTools == {"Edit", "Write", "MultiEdit", "NotebookEdit"}
ToolUses ==
    [name : {"Read", "Edit"}, file_path : FileRefs \cup {"none"},
     path : {"a", "none"}]

\* list.append(x) guarded by `x not in list`
AppendNew(list, x) ==
    IF \E k \in DOMAIN list : list[k] = x THEN list ELSE Append(list, x)

\* the file references one tool_use item adds to the two lists
add_file_refs(metadata, item) ==
    LET is_edit == item.name \in EditTools
        after_file_path ==
            IF item.file_path = "none" THEN metadata
            ELSE IF is_edit
                 THEN [metadata EXCEPT
                         !.files_edited = AppendNew(@, item.file_path)]
                 ELSE [metadata EXCEPT
                         !.files_analyzed = AppendNew(@, item.file_path)]
    IN  IF item.path = "none" THEN after_file_path
        ELSE [after_file_path EXCEPT !.files_analyzed = AppendNew(@, item.path)]

RECURSIVE collect_file_refs(_, _)
collect_file_refs(items, metadata) ==
    IF items = << >> THEN metadata
    ELSE collect_file_refs(Tail(items), add_file_refs(metadata, Head(items)))

\* the two lists of the metadata extract_metadata_single_pass returns
extract_metadata_single_pass(items) ==
    LET metadata == collect_file_refs(items, [files_analyzed |-> << >>,
                                              files_edited |-> << >>])
    IN  [files_analyzed |-> SubSeq(metadata.files_analyzed, 1,
                                   Min(MaxFileRefs, Len(metadata.files_analyzed))),
         files_edited |-> SubSeq(metadata.files_edited, 1,
                                 Min(MaxFileRefs, Len(metadata.files_edited)))]

MetadataInit ==
    /\ bf = InitialBackfillState
    /\ req = [i \in Reqs |-> NewReq]
    /\ task = [i \in Reqs |-> NoTask]
    /\ remote = << >>
    /\ hist = [i \in Reqs |-> NoHist]
    /\ faults = 0
    /\ mtime = [f \in Files |-> 1]
    /\ msgs = [f \in Files |-> 0]
    /\ sfile = Missing
    /\ tmpfile = Missing
    /\ points = {}
    /\ state = EmptyDoc
    /\ run = NotRunning
    /\ ilast = NoStep
    /\ ifailed = [f \in Files |-> FALSE]
    /\ collection = 0
    /\ sent = {}
    /\ ufile = Missing
    /\ exists = [p \in Paths |-> TRUE]
    /\ worker = WorkerIdle
    /\ cleaner = CleanerIdle
    /\ narratives = {}
    /\ nfailed = {}
    /\ jobs = << >>
    /\ dash = << >>
    /\ jlast = NoOp
    /\ selected = NoSelection
    /\ pollers = << >>
    /\ fnpc = "tool_uses"
    /\ chunk_list = << >>
    /\ batches = << >>
    /\ project_path = << >>
    /\ project_name = << >>
    /\ arg \in SeqsUpTo(ToolUses, MaxToolUses)
    /\ ret = << >>
    /\ scan = NoScan

ExtractMetadata ==
    /\ fnpc = "tool_uses"
    /\ ret' = extract_metadata_single_pass(arg)
    /\ fnpc' = "metadata"
    /\ UNCHANGED <<chunk_list, batches, project_path, project_name, arg>>
    /\ UNCHANGED scanvars
    /\ UNCHANGED bfvars
    /\ UNCHANGED ingvars
    /\ UNCHANGED narvars
    /\ UNCHANGED jobvars

MetadataNext == ExtractMetadata

SpecMetadata == MetadataInit /\ [][MetadataNext]_vars

NoDuplicates(list) ==
    \A i, j \in DOMAIN list : i # j => list[i] # list[j]

\* C40: files_analyzed and files_edited have no duplicates, at most
\* MaxFileRefs entries each, and no file path in common.
C40_FileListsDisjoint ==
    fnpc = "metadata"
       => /\ NoDuplicates(ret.files_analyzed)
          /\ NoDuplicates(ret.files_edited)
          /\ Len(ret.files_analyzed) <= MaxFileRefs
          /\ Len(ret.files_edited) <= MaxFileRefs
          /\ Range(ret.files_analyzed) \cap Range(ret.files_edited) = {}

(***************************************************************************)
(* worker_loop, cycle after cycle, when every remote batch completes,      *)
(* every narrative is stored and the worker is not killed.  Transcripts    *)
(* may be deleted and a cleanup may run at any time, in the admin API or   *)
(* in the worker between two cycles; its save can fail and its process can *)
(* be killed.                                                              *)
(***************************************************************************)
WorkerLoopInit ==
    /\ bf = InitialBackfillState
    /\ req = [i \in Reqs |-> NewReq]
    /\ task = [i \in Reqs |-> NoTask]
    /\ remote = << >>
    /\ hist = [i \in Reqs |-> NoHist]
    /\ faults = 0
    /\ mtime = [f \in Files |-> 1]
    /\ msgs = [f \in Files |-> 0]
    /\ sfile = Missing
    /\ tmpfile = Missing
    /\ points = {}
    /\ state = EmptyDoc
    /\ run = NotRunning
    /\ ilast = NoStep
    /\ ifailed = [f \in Files |-> FALSE]
    /\ collection = 0
    /\ sent = {}
    /\ ufile \in {Complete(d) : d \in [Paths -> ImportedEntries]}
    /\ exists = [p \in Paths |-> TRUE]
    /\ worker = WorkerIdle
    /\ cleaner = CleanerIdle
    /\ narratives = {}
    /\ nfailed = {}
    /\ jobs = << >>
    /\ dash = << >>
    /\ jlast = NoOp
    /\ selected = NoSelection
    /\ pollers = << >>
    /\ fnpc = "none"
    /\ chunk_list = << >>
    /\ batches = << >>
    /\ project_path = << >>
    /\ project_name = << >>
    /\ arg = << >>
    /\ ret = << >>
    /\ scan = NoScan

\* process_batch_results when every result is a narrative that is stored
ProcessStored == ProcessResults([p \in Range(worker.batch) |-> "stored"])

\* the steps of create_and_process_batch
CycleSteps ==
    \/ SubmitBatchOk
    \/ BatchCompletes
    \/ ProcessStored
    \/ MarkRead
    \/ MarkOpen
    \/ MarkWrite

\* the steps of a cleanup_orphaned_entries call
CleanupSteps ==
    \/ CleanupRead
    \/ CleanupOpen
    \/ CleanupOpenFails
    \/ CleanupWrite
    \/ CleanupWriteFails
    \/ CleanupReturn
    \/ CleanerCrash

WorkerLoopNext ==
    \/ CycleSelect
    \/ CycleSteps
    \/ CleanupSteps
    \/ \E p \in Paths : DeleteTranscript(p)

\* every iteration of `while True` calls run_worker_cycle, and the event
\* loop runs every ready step of the batch it awaits; nothing is assumed
\* of the cleanups
SpecWorkerLoop ==
    /\ WorkerLoopInit
    /\ [][WorkerLoopNext]_vars
    /\ WF_vars(CycleSelect)
    /\ WF_vars(CycleSteps)

IsEligible(p) == ufile.kind = "doc" /\ p \in Eligible(ufile.doc, exists)
IsMarked(p) ==
    /\ ufile.kind = "doc"
    /\ p \in DOMAIN ufile.doc
    /\ ufile.doc[p].has_narrative = "true"
IsGone(p) == ~exists[p]
FewEligible ==
    /\ ufile.kind = "doc"
    /\ Cardinality(Eligible(ufile.doc, exists)) < MIN_CONVERSATIONS_FOR_BATCH

====================================================================
